---- MODULE Spec2Model ----
(***************************************************************************)
(* Model of messenger-weekly: the MoMo receipt text extraction of          *)
(* ocr_fast.py, the date / name helpers of server.py and the lazily built  *)
(* OCR engine of ocr_fast.py and ocr_model.py.                             *)
(*                                                                         *)
(* A text is a sequence of characters; a character is a one-symbol string. *)
(* TLA+ strings are ASCII, so a Vietnamese letter is written in Telex:     *)
(*   "dd" d-stroke     "ees" e-circumflex-acute  "eer" e-circumflex-hook   *)
(*   "eef" e-circumflex-grave   "ows" o-horn-acute  "owf" o-horn-grave     *)
(*   "oos" o-circumflex-acute   "uw" u-horn   "aaj" a-circumflex-dot       *)
(*   "ax" a-tilde   "af" a-grave   "as" a-acute   "ij" i-dot-below         *)
(* and in capitals for the capital letter ("DD", "EES", ...).  "I." is the *)
(* capital I with dot above; "M_acute", "M_grave", "M_hook", "M_tilde",    *)
(* "M_circ", "M_horn", "M_dotbelow" and "M_dotabove" are the combining     *)
(* marks (category Mn); "ndash", "mdash" and "fwcolon" the two dashes and  *)
(* the full-width colon.                                                   *)
(***************************************************************************)
EXTENDS Integers, Sequences, FiniteSets, TLC

\* Python's None where a text is expected: a text of one symbol that is no character.
NoneStr == << "None" >>
\* Python's None where a non-negative integer is expected.
NoneInt == -1

\* not s, for an optional text
Falsy(s) == s = NoneStr \/ s = << >>

(***************************************************************************)
(* Characters                                                              *)
(***************************************************************************)
UpperLetters ==
  << "A", "B", "C", "D", "E", "F", "G", "H", "I", "J", "K", "L", "M",
     "N", "O", "P", "Q", "R", "S", "T", "U", "V", "W", "X", "Y", "Z",
     "DD", "EES", "EER", "EEF", "OWS", "OWF", "OOS", "UW", "AAJ", "AX",
     "AF", "AS", "IJ" >>

LowerLetters ==
  << "a", "b", "c", "d", "e", "f", "g", "h", "i", "j", "k", "l", "m",
     "n", "o", "p", "q", "r", "s", "t", "u", "v", "w", "x", "y", "z",
     "dd", "ees", "eer", "eef", "ows", "owf", "oos", "uw", "aaj", "ax",
     "af", "as", "ij" >>

AsciiUpper == { UpperLetters[i] : i \in 1..26 }
AsciiLower == { LowerLetters[i] : i \in 1..26 }
Digits == { "0", "1", "2", "3", "4", "5", "6", "7", "8", "9" }
Whitespace == { " ", "\t", "\n" }
CombiningMarks ==
  { "M_acute", "M_grave", "M_hook", "M_tilde", "M_circ", "M_horn", "M_dotbelow", "M_dotabove" }
WordChars ==
  { UpperLetters[i] : i \in DOMAIN UpperLetters }
    \cup { LowerLetters[i] : i \in DOMAIN LowerLetters }
    \cup Digits \cup { "_", "I." }

\* str.lower() / str.upper() of one character that maps to one character.
LowerTable ==
  [ c \in { UpperLetters[i] : i \in DOMAIN UpperLetters } |->
      LowerLetters[CHOOSE i \in DOMAIN UpperLetters : UpperLetters[i] = c] ]

UpperTable ==
  [ c \in { LowerLetters[i] : i \in DOMAIN LowerLetters } |->
      UpperLetters[CHOOSE i \in DOMAIN LowerLetters : LowerLetters[i] = c] ]

LowerChar(c) == IF c \in DOMAIN LowerTable THEN LowerTable[c] ELSE c
UpperChar(c) == IF c \in DOMAIN UpperTable THEN UpperTable[c] ELSE c

\* Full case mapping: the capital I with dot above lowers to i + combining dot.
LowerSeq(c) == IF c = "I." THEN << "i", "M_dotabove" >> ELSE << LowerChar(c) >>

RECURSIVE FlatMap(_, _)
FlatMap(Op(_), s) ==
  IF s = << >> THEN << >> ELSE Op(Head(s)) \o FlatMap(Op, Tail(s))

str_lower(s) == FlatMap(LowerSeq, s)
str_upper(s) == [ i \in DOMAIN s |-> UpperChar(s[i]) ]

(***************************************************************************)
(* String helpers (Python str methods)                                     *)
(***************************************************************************)
StartsAt(s, p, i) ==
  /\ i + Len(p) <= Len(s)
  /\ \A k \in 1..Len(p) : s[i + k] = p[k]

\* p in s
Contains(s, p) == \E i \in 0..(Len(s) - Len(p)) : StartsAt(s, p, i)

\* s.replace(p, r): leftmost, non-overlapping occurrences
RECURSIVE ReplaceFrom(_, _, _, _)
ReplaceFrom(s, p, r, i) ==
  IF i >= Len(s) THEN << >>
  ELSE IF StartsAt(s, p, i)
         THEN r \o ReplaceFrom(s, p, r, i + Len(p))
         ELSE << s[i + 1] >> \o ReplaceFrom(s, p, r, i + 1)

str_replace(s, p, r) == IF p = << >> THEN s ELSE ReplaceFrom(s, p, r, 0)

\* s.strip(chars)
RECURSIVE LStrip(_, _)
LStrip(s, cs) ==
  IF s # << >> /\ Head(s) \in cs THEN LStrip(Tail(s), cs) ELSE s

RECURSIVE RStrip(_, _)
RStrip(s, cs) ==
  IF s # << >> /\ s[Len(s)] \in cs
    THEN RStrip(SubSeq(s, 1, Len(s) - 1), cs)
    ELSE s

str_strip(s, cs) == RStrip(LStrip(s, cs), cs)

\* s[:n]
Take(s, n) == SubSeq(s, 1, IF n < Len(s) THEN n ELSE Len(s))

\* sep.join(parts)
RECURSIVE str_join(_, _)
str_join(sep, parts) ==
  IF parts = << >> THEN << >>
  ELSE IF Len(parts) = 1 THEN parts[1]
  ELSE parts[1] \o sep \o str_join(sep, Tail(parts))

\* The characters of s that are in cs, in order.
KeepChars(s, cs) == SelectSeq(s, LAMBDA c : c \in cs)

\* int(x) of a string of ASCII digits
DigitChars == << "0", "1", "2", "3", "4", "5", "6", "7", "8", "9" >>
DigitVal(c) == CHOOSE d \in 0..9 : DigitChars[d + 1] = c

RECURSIVE int_of(_)
int_of(x) ==
  IF x = << >> THEN 0
  ELSE 10 * int_of(SubSeq(x, 1, Len(x) - 1)) + DigitVal(x[Len(x)])

(***************************************************************************)
(* Regular expressions (Python re): a backtracking matcher.  Match returns *)
(* the sequence of ways a pattern matches from a position, in the order    *)
(* the re module tries them; re.search takes the first way at the leftmost *)
(* position.  A way is [pos, caps]: characters consumed so far and the     *)
(* span of each capture group (<<-1, -1>> when the group took no part).    *)
(***************************************************************************)
Ch(S) == << "set", S >>
Lit(c) == << "set", { c } >>
LitI(c) == << "set", { c, LowerChar(c), UpperChar(c) } >>
Cat(rs) == << "seq", rs >>
Str(s) == << "seq", [ i \in DOMAIN s |-> Lit(s[i]) ] >>
StrI(s) == << "seq", [ i \in DOMAIN s |-> LitI(s[i]) ] >>
Alt(rs) == << "alt", rs >>
Rep(r, lo, hi) == << "rep", r, lo, hi >>
Opt(r) == << "rep", r, 0, 1 >>
\* an upper count of -1 is no upper count
Star(r) == << "rep", r, 0, -1 >>
Plus(r) == << "rep", r, 1, -1 >>
AtLeast(r, lo) == << "rep", r, lo, -1 >>
Grp(k, r) == << "grp", k, r >>
WordBoundary == << "wb" >>

IsWordAt(text, i) == i >= 1 /\ i <= Len(text) /\ text[i] \in WordChars

RECURSIVE Match(_, _, _)
RECURSIVE MatchEach(_, _, _, _)
RECURSIVE MatchSeq(_, _, _, _)
RECURSIVE MatchAlt(_, _, _, _)
RECURSIVE MatchRep(_, _, _, _, _, _)
RECURSIVE MatchRepEach(_, _, _, _, _, _, _)

Match(r, text, st) ==
  CASE r[1] = "set" ->
         IF st.pos < Len(text) /\ text[st.pos + 1] \in r[2]
           THEN << [ st EXCEPT !.pos = @ + 1 ] >>
           ELSE << >>
    [] r[1] = "seq" -> MatchSeq(r[2], 1, text, << st >>)
    [] r[1] = "alt" -> MatchAlt(r[2], 1, text, st)
    [] r[1] = "rep" -> MatchRep(r[2], r[3], r[4], 0, text, st)
    [] r[1] = "grp" ->
         LET ms == Match(r[3], text, st)
         IN  [ k \in DOMAIN ms |->
                 [ ms[k] EXCEPT !.caps[r[2]] = << st.pos, ms[k].pos >> ] ]
    [] r[1] = "wb" ->
         IF IsWordAt(text, st.pos) # IsWordAt(text, st.pos + 1)
           THEN << st >>
           ELSE << >>

MatchEach(r, text, sts, k) ==
  IF k > Len(sts) THEN << >>
  ELSE Match(r, text, sts[k]) \o MatchEach(r, text, sts, k + 1)

MatchSeq(rs, i, text, sts) ==
  IF i > Len(rs) \/ sts = << >> THEN sts
  ELSE MatchSeq(rs, i + 1, text, MatchEach(rs[i], text, sts, 1))

MatchAlt(rs, i, text, st) ==
  IF i > Len(rs) THEN << >>
  ELSE Match(rs[i], text, st) \o MatchAlt(rs, i + 1, text, st)

\* greedy repetition: one more round first, stopping here last
MatchRep(r, lo, hi, n, text, st) ==
  LET again == SelectSeq(Match(r, text, st), LAMBDA s : s.pos > st.pos)
      more == IF hi < 0 \/ n < hi
                THEN MatchRepEach(r, lo, hi, n + 1, text, again, 1)
                ELSE << >>
  IN  more \o (IF n >= lo THEN << st >> ELSE << >>)

MatchRepEach(r, lo, hi, n, text, sts, k) ==
  IF k > Len(sts) THEN << >>
  ELSE MatchRep(r, lo, hi, n, text, sts[k])
         \o MatchRepEach(r, lo, hi, n, text, sts, k + 1)

NoMatch == [ start |-> -1, end |-> -1, caps |-> << >> ]

\* Whether a pattern matches the empty text, and the characters a match of it can start with:
\* a search passes over a position where no match can start.
RECURSIVE Nullable(_)
Nullable(r) ==
  CASE r[1] = "set" -> FALSE
    [] r[1] = "seq" -> \A i \in DOMAIN r[2] : Nullable(r[2][i])
    [] r[1] = "alt" -> \E i \in DOMAIN r[2] : Nullable(r[2][i])
    [] r[1] = "rep" -> r[3] = 0 \/ Nullable(r[2])
    [] r[1] = "grp" -> Nullable(r[3])
    [] r[1] = "wb" -> TRUE

RECURSIVE FirstChars(_)
FirstChars(r) ==
  CASE r[1] = "set" -> r[2]
    [] r[1] = "seq" ->
         UNION { FirstChars(r[2][i]) :
                   i \in { j \in DOMAIN r[2] : \A k \in 1..(j - 1) : Nullable(r[2][k]) } }
    [] r[1] = "alt" -> UNION { FirstChars(r[2][i]) : i \in DOMAIN r[2] }
    [] r[1] = "rep" -> FirstChars(r[2])
    [] r[1] = "grp" -> FirstChars(r[3])
    [] r[1] = "wb" -> { }

RECURSIVE SearchFrom(_, _, _, _, _, _)
SearchFrom(r, ng, text, i, first, nullable) ==
  IF i > Len(text) THEN NoMatch
  ELSE IF ~nullable /\ (i = Len(text) \/ text[i + 1] \notin first)
    THEN SearchFrom(r, ng, text, i + 1, first, nullable)
  ELSE LET ms == Match(r, text,
                       [ pos |-> i, caps |-> [ k \in 1..ng |-> << -1, -1 >> ] ])
       IN  IF ms # << >>
             THEN [ start |-> i, end |-> ms[1].pos, caps |-> ms[1].caps ]
             ELSE SearchFrom(r, ng, text, i + 1, first, nullable)

\* re.search(r, text) for a pattern with ng capture groups
re_search(r, ng, text) == SearchFrom(r, ng, text, 0, FirstChars(r), Nullable(r))

\* m.group(0), m.group(k)
Group0(m, text) == SubSeq(text, m.start + 1, m.end)
GroupK(m, text, k) ==
  IF m.caps[k][1] < 0 THEN NoneStr
  ELSE SubSeq(text, m.caps[k][1] + 1, m.caps[k][2])

\* re.sub(r, repl, text): every leftmost non-overlapping (non-empty) match replaced
RECURSIVE re_sub_from(_, _, _, _)
re_sub_from(r, repl, text, i) ==
  IF i >= Len(text) THEN << >>
  ELSE LET ms == Match(r, text, [ pos |-> i, caps |-> << >> ])
       IN  IF ms # << >> /\ ms[1].pos > i
             THEN repl \o re_sub_from(r, repl, text, ms[1].pos)
             ELSE << text[i + 1] >> \o re_sub_from(r, repl, text, i + 1)

re_sub(r, repl, text) == re_sub_from(r, repl, text, 0)
re_remove(r, text) == re_sub(r, << >>, text)


(***************************************************************************)
(* ocr_fast.py: amounts                                                    *)
(***************************************************************************)
CurrencyTokens == << << "V", "N", "D" >>, << "V", "N", "DD" >>, << "DD" >>, << "D" >> >>

RECURSIVE RemoveTokens(_, _, _)
RemoveTokens(x, toks, k) ==
  IF k > Len(toks) THEN x
  ELSE RemoveTokens(str_replace(x, toks[k], << >>), toks, k + 1)

\* A faulty variant of _vn_amount_to_int: no digits give 0 where the code gives None.
vn_amount_zero_for_none(s) ==
  IF Falsy(s) THEN 0 ELSE int_of(KeepChars(str_upper(s), Digits))

\* A faulty variant of _vn_amount_to_int: what follows a grouping dot is a decimal part and is dropped.
vn_amount_dot_decimal(s) ==
  LET digs(t) == KeepChars(t, Digits)
      cut == IF \E i \in DOMAIN s : s[i] = "."
               THEN SubSeq(s, 1, (CHOOSE i \in DOMAIN s :
                                    s[i] = "." /\ \A j \in 1..(i - 1) : s[j] # ".") - 1)
               ELSE s
  IN  IF Falsy(s) \/ digs(s) = << >> THEN NoneInt
      ELSE IF digs(cut) = << >> THEN 0 ELSE int_of(digs(cut))

_vn_amount_to_int(s) ==
  IF Falsy(s) THEN NoneInt
  ELSE LET x1 == RemoveTokens(str_upper(s), CurrencyTokens, 1)
           x2 == str_replace(str_replace(str_replace(x1, << "." >>, << >>),
                                         << "," >>, << >>), << " " >>, << >>)
           x3 == KeepChars(x2, Digits)
       IN  IF x3 = << >> THEN NoneInt ELSE int_of(x3)

(***************************************************************************)
(* ocr_fast.py: the patterns                                               *)
(***************************************************************************)
Space == Ch(Whitespace)
Digit == Ch(Digits)
AmountChars == Ch(Digits \cup { ".", ",", " " })
CurrencySuffix ==
  Alt(<< StrI(<< "V", "N", "D" >>), StrI(<< "V", "N", "DD" >>), LitI("DD"), LitI("D") >>)
LabelledAmount == Grp(1, Cat(<< Plus(AmountChars), Opt(CurrencySuffix) >>))
BareAmount == Cat(<< Digit, AtLeast(AmountChars, 3) >>)

AMOUNT_PATS ==
  << Cat(<< StrI(<< "S", "oos" >>), Star(Space), StrI(<< "t", "i", "eef", "n" >>),
            Star(Ch(Whitespace \cup { ":" })), LabelledAmount >>),
     Cat(<< StrI(<< "A", "m", "o", "u", "n", "t" >>),
            Star(Ch(Whitespace \cup { ":" })), LabelledAmount >>),
     Grp(1, Cat(<< BareAmount, Opt(Space), CurrencySuffix >>)),
     Cat(<< Grp(1, BareAmount), Star(Space), CurrencySuffix >>),
     Cat(<< Grp(1, BareAmount), Star(Space), LitI("dd") >>) >>

DateLabel ==
  Alt(<< Cat(<< StrI(<< "T", "h", "owf", "i" >>), Star(Space), StrI(<< "g", "i", "a", "n" >>) >>),
         Cat(<< StrI(<< "N", "g", "af", "y" >>), Star(Space), StrI(<< "g", "i", "a", "o" >>),
                Star(Space), StrI(<< "d", "ij", "c", "h" >>) >>),
         Cat(<< StrI(<< "T", "h", "owf", "i" >>), Star(Space), StrI(<< "dd", "i", "eer", "m" >>) >>),
         StrI(<< "D", "a", "t", "e" >>),
         StrI(<< "T", "i", "m", "e" >>) >>)
TimeToken ==
  Cat(<< Rep(Digit, 1, 2), Ch({ ":", "h", "H" }), Rep(Digit, 2, 2),
         Opt(Cat(<< Lit(":"), Rep(Digit, 2, 2) >>)) >>)
DateSep == Ch({ "/", "-" })
DateToken ==
  Cat(<< Rep(Digit, 1, 2), DateSep, Rep(Digit, 1, 2), DateSep, Rep(Digit, 2, 4) >>)
LabelGap == Star(Ch(Whitespace \cup { ":", "-" }))

DATE_PATS ==
  << Cat(<< DateLabel, LabelGap,
            Grp(1, Cat(<< TimeToken, Star(Space), Opt(Lit("-")), Star(Space), DateToken >>)) >>),
     Cat(<< DateLabel, LabelGap,
            Grp(1, Cat(<< DateToken, Plus(Space), TimeToken >>)) >>),
     Grp(1, Cat(<< TimeToken, Star(Space), Opt(Ch({ ",", "-" })), Star(Space), DateToken >>)),
     Grp(1, Cat(<< DateToken, Plus(Space), TimeToken >>)) >>

VN_PHONE ==
  Cat(<< Alt(<< Cat(<< Opt(Lit("+")), Str(<< "8", "4" >>) >>), Lit("0") >>),
         Opt(Space), Rep(Digit, 2, 2), Opt(Space), Rep(Digit, 3, 3),
         Opt(Space), Rep(Digit, 4, 5) >>)

RECIPIENT_KEYS ==
  << << "DD", "ees", "n" >>,
     << "T", "ows", "i" >>,
     << "C", "h", "u", "y", "eer", "n", " ", "t", "ows", "i" >>,
     << "C", "h", "u", "y", "eer", "n", " ", "dd", "ees", "n" >>,
     << "N", "g", "uw", "owf", "i", " ", "n", "h", "aaj", "n" >>,
     << "R", "e", "c", "i", "p", "i", "e", "n", "t" >>,
     << "T", "o" >> >>

TXN_KEYS ==
  << << "M", "ax", " ", "g", "i", "a", "o", " ", "d", "ij", "c", "h" >>,
     << "M", "ax", " ", "G", "D" >>,
     << "T", "r", "a", "n", "s", "a", "c", "t", "i", "o", "n", " ", "I", "D" >>,
     << "M", "ax", " ", "t", "h", "a", "m", " ", "c", "h", "i", "ees", "u" >>,
     << "R", "e", "f" >> >>

TxnChars == Ch(AsciiUpper \cup AsciiLower \cup Digits \cup { "-", "." })
TxnAfterColon == Cat(<< Ch({ ":", "fwcolon" }), Star(Space), Grp(1, AtLeast(TxnChars, 6)) >>)
TxnBlock ==
  Grp(1, Cat(<< Ch(AsciiUpper \cup AsciiLower \cup Digits), AtLeast(TxnChars, 5) >>))

\* _find_first: the first pattern that matches decides, also when what it captured strips to nothing
RECURSIVE FindFirstFrom(_, _, _)
\* (m.group(1) or m.group(0)).strip()
Captured(m, text) ==
  str_strip(IF Falsy(GroupK(m, text, 1)) THEN Group0(m, text) ELSE GroupK(m, text, 1),
            Whitespace)

\* the body of the loop, m the match of pattern k
FirstOrNext(patterns, text, k, m) ==
  IF m # NoMatch THEN Captured(m, text) ELSE FindFirstFrom(patterns, text, k + 1)

FindFirstFrom(patterns, text, k) ==
  IF k > Len(patterns) THEN NoneStr
  ELSE FirstOrNext(patterns, text, k, re_search(patterns[k], 1, text))

\* A faulty variant of _find_first: no match gives the empty text where the code gives None.
find_first_empty_text(patterns, text) ==
  IF FindFirstFrom(patterns, text, 1) = NoneStr THEN << >>
  ELSE FindFirstFrom(patterns, text, 1)

_find_first(patterns, text) == FindFirstFrom(patterns, text, 1)

(***************************************************************************)
(* ocr_fast.py: _momo_parse                                                *)
(***************************************************************************)
KeySeparators == { " ", ":", "|", "-", "ndash", "mdash" }
NameTrim == { " ", ",", ".", "-", "ndash", "mdash" }
TxnTrim == { ".", "-", " " }

\* k.lower() for k in keys
LowerKeys(keys) == [ k \in DOMAIN keys |-> str_lower(keys[k]) ]
RecipientKeysLower == LowerKeys(RECIPIENT_KEYS)
TxnKeysLower == LowerKeys(TXN_KEYS)
\* the keys as patterns under re.IGNORECASE
RecipientKeyPats == [ k \in DOMAIN RECIPIENT_KEYS |-> StrI(RECIPIENT_KEYS[k]) ]

\* any(k.lower() in low for k in keys), given the lowered keys
HasKey(low, lowered) == \E k \in DOMAIN lowered : Contains(low, lowered[k])

\* The line with every recipient key removed, one key after the other (re.sub, IGNORECASE).
RECURSIVE RemoveKeys(_, _)
RemoveKeys(after, k) ==
  IF k > Len(RECIPIENT_KEYS) THEN after
  ELSE RemoveKeys(re_remove(RecipientKeyPats[k], after), k + 1)

\* m.group(0) of a search in text, or None
MatchedText(m, text) == IF m = NoMatch THEN NoneStr ELSE Group0(m, text)

\* VN_PHONE.search(text).group(0), or None
PhoneIn(text) == MatchedText(re_search(VN_PHONE, 0, text), text)

\* x or None
OrNone(s) == IF s # << >> THEN s ELSE NoneStr

\* lines 178-184: what is left of the key line, ph the phone found in it
NameAndPhone(after, ph) ==
  IF ph = NoneStr THEN [ name |-> OrNone(after), phone |-> NoneStr ]
  ELSE [ name |-> OrNone(str_strip(str_replace(after, ph, << >>), NameTrim)),
         phone |-> str_replace(ph, << " " >>, << >>) ]

\* line 178: if after and len(after) >= 2
AfterKeys(after) ==
  IF after # << >> /\ Len(after) >= 2 THEN NameAndPhone(after, PhoneIn(after))
  ELSE [ name |-> NoneStr, phone |-> NoneStr ]

\* TH1: the name (and phone) on the line of the key itself
SameLine(raw) == AfterKeys(str_strip(RemoveKeys(raw, 1), KeySeparators))

\* lines[k].strip(), empty when there is no such line
Candidate(lines, k) ==
  IF k <= Len(lines) THEN str_strip(lines[k], Whitespace) ELSE << >>

\* lines 191-209: the candidate line cand, ph the phone found in it, cand2 the line after it
LookAtCandidate(cand, ph, cand2, st) ==
  IF cand = << >> THEN st
  ELSE IF ph # NoneStr /\ Falsy(st.phone)
    THEN [ phone |-> str_replace(ph, << " " >>, << >>),
           name |-> IF str_strip(str_replace(cand, ph, << >>), NameTrim) # << >>
                      THEN str_strip(str_replace(cand, ph, << >>), NameTrim)
                    ELSE IF Falsy(st.name) /\ cand2 # << >> THEN cand2
                    ELSE st.name ]
    ELSE IF Falsy(st.name) THEN [ st EXCEPT !.name = cand ] ELSE st

\* One round of the TH2 loop: the line j after the key line i.
LookAt(lines, i, j, st) ==
  IF i + j > Len(lines) THEN st
  ELSE LookAtCandidate(Candidate(lines, i + j), PhoneIn(Candidate(lines, i + j)),
                       Candidate(lines, i + j + 1), st)

\* the second round, s1 what the first round left
\* (a missing or blank line is passed over before the loop's "if recipient_name: break")
SecondLook(lines, i, s1) ==
  IF Candidate(lines, i + 1) # << >> /\ ~Falsy(s1.name) THEN s1
  ELSE LookAt(lines, i, 2, s1)

\* TH2: for j in range(1, 3), leaving the loop once a name is there
NextLines(lines, i, st) == SecondLook(lines, i, LookAt(lines, i, 1, st))

\* line 187: the lookahead runs when the key line gave no name, or one of a single character
NameOrLookahead(lines, i, st) ==
  IF Falsy(st.name) \/ Len(st.name) < 2 THEN NextLines(lines, i, st) ELSE st

\* What the key line i gives.
RecipientAt(lines, i) ==
  NameOrLookahead(lines, i, SameLine(str_strip(lines[i], Whitespace)))

\* A faulty variant of IsRecipientLine: a line is taken for a recipient line without any key in it.
any_line_is_recipient(ln) == str_strip(ln, Whitespace) # << >>

IsRecipientLine(ln) ==
  str_strip(ln, Whitespace) # << >>
    /\ HasKey(str_lower(str_strip(ln, Whitespace)), RecipientKeysLower)

\* 2) the scan of the lines for a recipient key, ended by the first line that gives a name or a phone
RECURSIVE ScanRecipient(_, _)
\* lines 212-213: if recipient_name or recipient_phone: break
FoundOrNext(lines, i, st) ==
  IF ~Falsy(st.name) \/ ~Falsy(st.phone) THEN st ELSE ScanRecipient(lines, i + 1)

ScanRecipient(lines, i) ==
  IF i > Len(lines) THEN [ name |-> NoneStr, phone |-> NoneStr ]
  ELSE IF IsRecipientLine(lines[i]) THEN FoundOrNext(lines, i, RecipientAt(lines, i))
  ELSE ScanRecipient(lines, i + 1)

IsTxnLine(ln) == HasKey(str_lower(ln), TxnKeysLower)

\* m.group(1).strip(".- ") if m, else what the other way gives
GroupOr(m, ln, other) ==
  IF m # NoMatch THEN str_strip(GroupK(m, ln, 1), TxnTrim) ELSE other

\* lines 221-228: what follows a colon first, any long block of letters and digits second
TxnIn(ln, txn) ==
  GroupOr(re_search(TxnAfterColon, 1, ln), ln,
          GroupOr(re_search(TxnBlock, 1, ln), ln, txn))

\* 3) the scan for a transaction id, ended by the first key line that gives a non-empty id
RECURSIVE ScanTxn(_, _, _)
\* lines 229-230: if txn_id: break
TxnOrNext(lines, i, t) == IF ~Falsy(t) THEN t ELSE ScanTxn(lines, i + 1, t)

ScanTxn(lines, i, txn) ==
  IF i > Len(lines) THEN txn
  ELSE IF IsTxnLine(lines[i]) THEN TxnOrNext(lines, i, TxnIn(lines[i], txn))
  ELSE ScanTxn(lines, i + 1, txn)

\* lines 233-243: the amount's value and the record returned
MomoRecord(rec, datetime_text, txn_id, amount_text) ==
  [ recipient_name |-> rec.name,
    recipient_phone |-> rec.phone,
    datetime_text |-> datetime_text,
    txn_id |-> txn_id,
    amount_text |-> amount_text,
    amount_val |-> IF ~Falsy(amount_text) THEN _vn_amount_to_int(amount_text)
                   ELSE NoneInt ]

_momo_parse(lines, full) ==
  MomoRecord(ScanRecipient(lines, 1), _find_first(DATE_PATS, full),
             ScanTxn(lines, 1, NoneStr), _find_first(AMOUNT_PATS, full))

(***************************************************************************)
(* server.py: names                                                        *)
(***************************************************************************)
\* Canonical decompositions (NFD): the base letter and its marks in canonical order.
Decomposed ==
  << << "as", << "a", "M_acute" >> >>,
     << "af", << "a", "M_grave" >> >>,
     << "ax", << "a", "M_tilde" >> >>,
     << "aaj", << "a", "M_dotbelow", "M_circ" >> >>,
     << "ees", << "e", "M_circ", "M_acute" >> >>,
     << "eer", << "e", "M_circ", "M_hook" >> >>,
     << "eef", << "e", "M_circ", "M_grave" >> >>,
     << "ows", << "o", "M_horn", "M_acute" >> >>,
     << "owf", << "o", "M_horn", "M_grave" >> >>,
     << "oos", << "o", "M_circ", "M_acute" >> >>,
     << "uw", << "u", "M_horn" >> >>,
     << "ij", << "i", "M_dotbelow" >> >>,
     << "AS", << "A", "M_acute" >> >>,
     << "AF", << "A", "M_grave" >> >>,
     << "AX", << "A", "M_tilde" >> >>,
     << "AAJ", << "A", "M_dotbelow", "M_circ" >> >>,
     << "EES", << "E", "M_circ", "M_acute" >> >>,
     << "EER", << "E", "M_circ", "M_hook" >> >>,
     << "EEF", << "E", "M_circ", "M_grave" >> >>,
     << "OWS", << "O", "M_horn", "M_acute" >> >>,
     << "OWF", << "O", "M_horn", "M_grave" >> >>,
     << "OOS", << "O", "M_circ", "M_acute" >> >>,
     << "UW", << "U", "M_horn" >> >>,
     << "IJ", << "I", "M_dotbelow" >> >>,
     << "I.", << "I", "M_dotabove" >> >> >>

DecompOf(c) ==
  IF \E k \in DOMAIN Decomposed : Decomposed[k][1] = c
    THEN Decomposed[CHOOSE k \in DOMAIN Decomposed : Decomposed[k][1] = c][2]
    ELSE << c >>

\* unicodedata.normalize("NFD", s), for marks of one combining class
NFD(s) == FlatMap(DecompOf, s)

\* unicodedata.normalize("NFC", s) of a decomposed text: a base letter and the marks
\* that follow it are composed into the letter they decompose from
RECURSIVE NFC(_)
NFC(s) ==
  IF s = << >> THEN << >>
  ELSE LET fits == { k \in DOMAIN Decomposed : StartsAt(s, Decomposed[k][2], 0) }
           best == CHOOSE k \in fits :
                     \A j \in fits : Len(Decomposed[j][2]) <= Len(Decomposed[k][2])
       IN  IF fits = { } THEN << Head(s) >> \o NFC(Tail(s))
           ELSE << Decomposed[best][1] >>
                  \o NFC(SubSeq(s, Len(Decomposed[best][2]) + 1, Len(s)))

_strip_accents(s) == NFC(SelectSeq(NFD(s), LAMBDA c : c \notin CombiningMarks))

Spaces == Plus(Ch(Whitespace))

\* A faulty variant of norm_name: the accents are stripped last, after the whitespace is settled.
norm_name_accents_last(s) ==
  _strip_accents(re_sub(Spaces, << " " >>, str_strip(str_lower(s), Whitespace)))

norm_name(s) ==
  re_sub(Spaces, << " " >>, str_strip(str_lower(_strip_accents(s)), Whitespace))

\* Length of a longest common subsequence.
RECURSIVE LCS(_, _)
LCS(a, b) ==
  IF a = << >> \/ b = << >> THEN 0
  ELSE IF Head(a) = Head(b) THEN 1 + LCS(Tail(a), Tail(b))
  ELSE LET l == LCS(Tail(a), b)
           r == LCS(a, Tail(b))
       IN  IF l >= r THEN l ELSE r

\* rapidfuzz.fuzz.ratio(a, b) >= t: the normalised indel similarity, in percent
RatioAtLeast(a, b, t) ==
  IF Len(a) + Len(b) = 0 THEN TRUE
  ELSE 200 * LCS(a, b) >= t * (Len(a) + Len(b))

\* rapidfuzz.fuzz.partial_ratio(a, b) >= t: the best ratio of the shorter text
\* against a stretch of the longer one that is no longer than it
PartialRatioAtLeast(a, b, t) ==
  LET short == IF Len(a) <= Len(b) THEN a ELSE b
      long == IF Len(a) <= Len(b) THEN b ELSE a
  IN  \E i \in 1..Len(long) : \E j \in i..Len(long) :
        /\ j - i + 1 <= Len(short)
        /\ RatioAtLeast(short, SubSeq(long, i, j), t)

\* A faulty variant of names_match: the two names are compared as given, not normalised.
names_match_raw(a, b) ==
  IF a = << >> \/ b = << >> THEN FALSE
  ELSE IF a = b \/ Contains(b, a) \/ Contains(a, b) THEN TRUE
  ELSE PartialRatioAtLeast(a, b, 90) \/ RatioAtLeast(a, b, 85)

names_match(a, b) ==
  LET na == norm_name(a)
      nb == norm_name(b)
  IN  IF na = << >> \/ nb = << >> THEN FALSE
      ELSE IF na = nb \/ Contains(nb, na) \/ Contains(na, nb) THEN TRUE
      ELSE PartialRatioAtLeast(na, nb, 90) \/ RatioAtLeast(na, nb, 85)

(***************************************************************************)
(* server.py: dates                                                        *)
(***************************************************************************)
SLASH_DATE_RE ==
  Cat(<< WordBoundary, Grp(1, Rep(Digit, 1, 2)), Lit("/"), Grp(2, Rep(Digit, 1, 2)),
         Lit("/"), Grp(3, Rep(Digit, 4, 4)), WordBoundary >>)

\* \b(thoi\s*gia[mn]|thời\s*gia[mn])\b under re.I
TimeKeyword ==
  Cat(<< WordBoundary,
         Alt(<< Cat(<< StrI(<< "t", "h", "o", "i" >>), Star(Space),
                       StrI(<< "g", "i", "a" >>), Ch({ "m", "n", "M", "N" }) >>),
                Cat(<< StrI(<< "t", "h", "owf", "i" >>), Star(Space),
                       StrI(<< "g", "i", "a" >>), Ch({ "m", "n", "M", "N" }) >>) >>),
         WordBoundary >>)

MinMonth == 1
MaxMonth == 12
MinYear == 2000
MaxYear == 2100

NoDate == [ text |-> NoneStr, month |-> NoneInt, year |-> NoneInt ]

\* A faulty variant of extract_strict_slash_date_from_text: the month is not checked.
extract_strict_any_month(text) ==
  LET m == re_search(SLASH_DATE_RE, 3, text)
      year == int_of(GroupK(m, text, 3))
  IN  IF text = << >> \/ m = NoMatch THEN NoDate
      ELSE IF ~(MinYear <= year /\ year <= MaxYear) THEN NoDate
      ELSE [ text |-> Group0(m, text), month |-> int_of(GroupK(m, text, 2)), year |-> year ]

extract_strict_slash_date_from_text(text) ==
  LET m == re_search(SLASH_DATE_RE, 3, text)
      month == int_of(GroupK(m, text, 2))
      year == int_of(GroupK(m, text, 3))
  IN  IF text = << >> \/ m = NoMatch THEN NoDate
      ELSE IF ~(MinMonth <= month /\ month <= MaxMonth /\ MinYear <= year /\ year <= MaxYear)
        THEN NoDate
      ELSE [ text |-> Group0(m, text), month |-> month, year |-> year ]

HasTimeKeyword(ln) == re_search(TimeKeyword, 0, ln) # NoMatch

\* The first line from i on (of the lines with the time keyword, or of all) that gives a date.
RECURSIVE FirstDateIn(_, _, _)
FirstDateIn(lines, i, keyword_only) ==
  IF i > Len(lines) THEN NoDate
  ELSE LET hit == IF keyword_only /\ ~HasTimeKeyword(lines[i]) THEN NoDate
                  ELSE extract_strict_slash_date_from_text(lines[i])
       IN  IF hit # NoDate THEN hit ELSE FirstDateIn(lines, i + 1, keyword_only)

\* A faulty variant of extract_momo_date: a rejected date on a time line ends the extraction.
extract_momo_date_stop_at_reject(lines, fallback_text) ==
  LET first == FirstDateIn(lines, 1, TRUE)
      rejected == \E i \in DOMAIN lines :
                    /\ HasTimeKeyword(lines[i])
                    /\ re_search(SLASH_DATE_RE, 3, lines[i]) # NoMatch
                    /\ extract_strict_slash_date_from_text(lines[i]) = NoDate
      second == FirstDateIn(lines, 1, FALSE)
      third == extract_strict_slash_date_from_text(fallback_text)
  IN  IF rejected THEN [ NoDate EXCEPT !.text = << "-" >> ]
      ELSE IF first # NoDate THEN first
      ELSE IF second # NoDate THEN second
      ELSE IF third # NoDate THEN third
      ELSE [ NoDate EXCEPT !.text = << "-" >> ]

extract_momo_date(lines, fallback_text) ==
  LET first == FirstDateIn(lines, 1, TRUE)
      second == FirstDateIn(lines, 1, FALSE)
      third == extract_strict_slash_date_from_text(fallback_text)
  IN  IF first # NoDate THEN first
      ELSE IF second # NoDate THEN second
      ELSE IF third # NoDate THEN third
      ELSE [ NoDate EXCEPT !.text = << "-" >> ]

(***************************************************************************)
(* ocr_fast.py: fast_extract_amount_date                                   *)
(***************************************************************************)
OCR_HARD_BUDGET == 20

FieldKeys ==
  { "amount_text", "amount", "date_text", "recipient_name", "recipient_phone", "txn_id" }

\* line 267: the download alone used up the budget
TooSlowRecord == [ timeout |-> TRUE, error |-> "download too slow" ]

\* lines 277-284: the OCR found no text
NoTextRecord(spent) ==
  [ amount_text |-> NoneStr, amount |-> NoneInt, date_text |-> NoneStr,
    recipient_name |-> NoneStr, recipient_phone |-> NoneStr, txn_id |-> NoneStr,
    lines |-> << >>, avg_conf |-> NoneInt, spent_sec |-> spent,
    note |-> "no text detected" ]

\* lines 298-309
OutRecord(momo, lines, conf, spent) ==
  [ amount_text |-> momo.amount_text, amount |-> momo.amount_val,
    date_text |-> momo.datetime_text,
    recipient_name |-> momo.recipient_name,
    recipient_phone |-> momo.recipient_phone, txn_id |-> momo.txn_id,
    lines |-> Take(lines, 60), avg_conf |-> conf, spent_sec |-> spent ]

\* lines 310-311: the budget is looked at once more
WithTimeout(out, spent) ==
  IF spent > OCR_HARD_BUDGET THEN out @@ [ timeout |-> TRUE ] ELSE out

\* lines 286-312
ParsedRecord(lines, conf, spent) ==
  WithTimeout(OutRecord(_momo_parse(lines, str_join(<< "\n" >>, Take(lines, 250))),
                        lines, conf, spent),
              spent)

\* A faulty variant of AfterOcr: the record for no text carries no line list.
AfterOcrNoEcho(lines, conf, spent) ==
  IF lines = << >> THEN [ NoTextRecord(spent) EXCEPT !.lines = NoneStr ]
  ELSE ParsedRecord(lines, conf, spent)

\* What fast_extract_amount_date returns once the OCR has given its lines.
AfterOcr(lines, conf, spent) ==
  IF lines = << >> THEN NoTextRecord(spent) ELSE ParsedRecord(lines, conf, spent)

(***************************************************************************)
(* server.py: amounts and days                                             *)
(***************************************************************************)
\* parse_amount_to_int: every character that is no digit is dropped
parse_amount_to_int(amount_text) ==
  IF KeepChars(amount_text, Digits) = << >> THEN NoneInt
  ELSE int_of(KeepChars(amount_text, Digits))

\* dt.date: a day of the calendar
Day(y, m, d) == [ year |-> y, month |-> m, day |-> d ]
NoDay == Day(NoneInt, NoneInt, NoneInt)
IsLeap(y) == (y % 4 = 0 /\ y % 100 # 0) \/ y % 400 = 0
DaysIn(y, m) ==
  IF m = 2 THEN (IF IsLeap(y) THEN 29 ELSE 28)
  ELSE IF m \in { 4, 6, 9, 11 } THEN 30 ELSE 31

\* A faulty variant of DayGE: a > b, the day itself is left out.
day_after(a, b) ==
  \/ a.year > b.year
  \/ a.year = b.year /\ a.month > b.month
  \/ a.year = b.year /\ a.month = b.month /\ a.day > b.day

\* a >= b for two days
DayGE(a, b) ==
  \/ a.year > b.year
  \/ a.year = b.year /\ a.month > b.month
  \/ a.year = b.year /\ a.month = b.month /\ a.day >= b.day

\* str(n)
RECURSIVE ToDigits(_)
ToDigits(n) ==
  IF n < 10 THEN << DigitChars[n + 1] >>
  ELSE ToDigits(n \div 10) \o << DigitChars[(n % 10) + 1] >>

\* ds with zeros in front up to w digits: %04d, %02d
RECURSIVE ZeroPad(_, _)
ZeroPad(ds, w) == IF Len(ds) >= w THEN ds ELSE ZeroPad(<< "0" >> \o ds, w)

\* dt.date.isoformat(): YYYY-MM-DD
isoformat(d) ==
  ZeroPad(ToDigits(d.year), 4) \o << "-" >> \o ZeroPad(ToDigits(d.month), 2)
    \o << "-" >> \o ZeroPad(ToDigits(d.day), 2)

\* dt.date.fromisoformat(text) of a text in the form YYYY-MM-DD; NoDay where it raises
\* ValueError
IsoShaped(text) ==
  /\ Len(text) = 10
  /\ text[5] = "-" /\ text[8] = "-"
  /\ \A i \in { 1, 2, 3, 4, 6, 7, 9, 10 } : text[i] \in Digits
DayIfValid(y, m, d) ==
  IF y >= 1 /\ m \in 1..12 /\ d >= 1 /\ d <= DaysIn(y, m) THEN Day(y, m, d) ELSE NoDay
fromisoformat(text) ==
  IF ~IsoShaped(text) THEN NoDay
  ELSE DayIfValid(int_of(SubSeq(text, 1, 4)), int_of(SubSeq(text, 6, 7)),
                  int_of(SubSeq(text, 9, 10)))

_first_day_next_month_vn(today) ==
  Day(today.year + (IF today.month = 12 THEN 1 ELSE 0),
      IF today.month = 12 THEN 1 ELSE today.month + 1, 1)

is_current_month_vn(month, year, today) == month = today.month /\ year = today.year

(***************************************************************************)
(* Inputs                                                                  *)
(***************************************************************************)
MaxNameLen == 3
MaxPairLen == 2
MaxAmountLen == 3
MaxAmountDigits == 7
MaxDateLines == 2
MaxOcrLines == 3
NumThreads == 2

TextsOver(alphabet, n) == UNION { [ 1..k -> alphabet ] : k \in 0..n }

\* names: letters in both cases, with and without accent, a loose accent, blanks
NameAlphabet == { "a", "A", "as", "AS", "I.", "M_acute", " ", "\t" }
PairAlphabet == { "a", "A", "as", "M_acute", " " }

\* amounts: digits, grouping characters and the letters of the currency tokens
AmountAlphabet == { "0", "1", "9", ".", ",", " ", "dd", "D", "V", "N" }
AmountDigitSet == { "0", "1", "9" }
Amounts == { int_of(ds) : ds \in TextsOver(AmountDigitSet, MaxAmountDigits) \ { << >> } }

RECURSIVE GroupThousands(_)
GroupThousands(ds) ==
  IF Len(ds) <= 3 THEN ds
  ELSE GroupThousands(SubSeq(ds, 1, Len(ds) - 3)) \o << "." >>
         \o SubSeq(ds, Len(ds) - 2, Len(ds))

\* n with "." between the thousands and the currency sign appended: 1200000 -> 1.200.000dd
FormatVN(n) == GroupThousands(ToDigits(n)) \o << "dd" >>

\* lines with a date, as the OCR reads them off a receipt
DateLineSet ==
  { << "T", "h", "o", "i", " ", "g", "i", "a", "n", " ", "2", "2", "/", "1", "3", "/", "2", "0", "2", "5" >>,
    << "T", "h", "owf", "i", " ", "g", "i", "a", "n", ":", " ", "2", "2", "/", "0", "9", "/", "2", "0", "2", "5" >>,
    << "2", "2", "/", "1", "2", "/", "2", "1", "0", "0" >>,
    << "1", "/", "0", "/", "2", "0", "2", "5", " ", "5", "/", "1", "/", "2", "0", "0", "0" >>,
    << "2", "2", "/", "0", "9", "/", "1", "9", "9", "9" >>,
    << "A", "n", " ", "L", "e" >> }
DateFallbackSet ==
  { << "-" >>,
    << "2", "2", ":", "2", "5", " ", "-", " ", "2", "2", "/", "1", "3", "/", "2", "0", "2", "5" >>,
    << "2", "2", ":", "2", "5", " ", "-", " ", "0", "1", "/", "0", "1", "/", "2", "0", "2", "5" >> }

\* lines of a receipt
LineTo == << "T", "o" >>
LinePhoto == << "P", "h", "o", "t", "o" >>
LineName == << "A", "n", " ", "L", "e" >>
LineRef == << "R", "e", "f", ":", " ", "A", "B", "1", "2", "3", "4", "5" >>
LinePhone == << "0", "9", "0", "3", "1", "2", "3", "4", "5", "6" >>
LineToName == << "DD", "ees", "n", " ", "A", "n", " ", "0", "9", "0", "3", "1", "2", "3", "4", "5", "6" >>
LineAmount == << "1", "2", "0", ".", "0", "0", "0", "dd" >>
LineBlank == << " " >>

\* what _run_rapidocr hands on: stripped lines, none of them empty
OcrLineSet == { LineTo, LineRef, LinePhone, LineAmount }
\* what _momo_parse accepts: any lines
AnyLineSet == OcrLineSet \cup { LineName, LinePhoto, LineToName, LineBlank }

DownloadSecs == { 1, OCR_HARD_BUDGET, OCR_HARD_BUDGET + 1 }
OcrSecs == { 1 }
ConfPercents == { 90 }
Modules == { "ocr_fast", "ocr_model" }
Threads == 1..NumThreads

ListsOver(lineset, n) == UNION { [ 1..k -> lineset ] : k \in 0..n }

(***************************************************************************)
(* State                                                                   *)
(***************************************************************************)
VARIABLES
  nm_pc, nm_a, nm_b, nm_out, nm_prev, nm_match,   \* norm_name / names_match at work
  amt_pc, amt_n, amt_in, amt_out,                 \* _vn_amount_to_int at work
  dt_pc, dt_lines, dt_fallback, dt_out,           \* extract_momo_date at work
  ps_pc, ps_lines, ps_out,                        \* _momo_parse at work
  ex_pc, ex_elapsed, ex_lines, ex_out,            \* a call of fast_extract_amount_date
  _OCR, built, th_pc, th_mod, th_obj,             \* the OCR engine of each module and the threads asking for it
  csv, today,                                     \* psids.csv and the day in Vietnam
  tw_pc, tw_header, tw_status, tw_calls,          \* a request to /task/weekly
  wh_pc, wh_mid, wh_atts, wh_text, wh_image,      \* a message event at /webhook: its mid, attachments, text, what is on its images
  ocr_ready, _processed_images,                   \* whether ocr_fast was imported; the urls seen_image has recorded
  wh_at, wh_result, wh_ocr_calls, wh_replies,     \* the attachment taken, what the OCR returned, its calls, the send_text calls
  wh_before, wh_status,                           \* psids.csv when the event came in; the answer of the request
  clock, _processed_mids, last_rec,               \* time.time(), the mids recorded, and when each mid was last recorded
  dd_pc, dd_events, dd_last,                      \* events handled one after another: how many, and what became of the last
  sm_pc, sm_mid                                   \* the threads in seen_mid, each with the mid of its event

nameVars == << nm_pc, nm_a, nm_b, nm_out, nm_prev, nm_match >>
amountVars == << amt_pc, amt_n, amt_in, amt_out >>
dateVars == << dt_pc, dt_lines, dt_fallback, dt_out >>
parseVars == << ps_pc, ps_lines, ps_out >>
extractVars == << ex_pc, ex_elapsed, ex_lines, ex_out >>
ocrVars == << _OCR, built, th_pc, th_mod, th_obj >>
fileVars == << csv, today >>
weeklyVars == << tw_pc, tw_header, tw_status, tw_calls >>
hookVars ==
  << wh_pc, wh_mid, wh_atts, wh_text, wh_image, ocr_ready, _processed_images,
     wh_at, wh_result, wh_ocr_calls, wh_replies, wh_before, wh_status >>
dedupVars == << clock, _processed_mids, last_rec, dd_pc, dd_events, dd_last, sm_pc, sm_mid >>
serverVars == << fileVars, weeklyVars, hookVars, dedupVars >>
momoVars == << nameVars, amountVars, dateVars, parseVars, extractVars, ocrVars >>
vars == << momoVars, serverVars >>

NoParse ==
  [ recipient_name |-> NoneStr, recipient_phone |-> NoneStr, datetime_text |-> NoneStr,
    txn_id |-> NoneStr, amount_text |-> NoneStr, amount_val |-> NoneInt ]
NotReturned == [ pending |-> TRUE ]
\* ex_lines before the OCR has run
NotRead == << NoneStr >>

NamesOff ==
  /\ nm_pc = "off" /\ nm_a = << >> /\ nm_b = << >>
  /\ nm_out = << >> /\ nm_prev = << >> /\ nm_match = FALSE
AmountOff == amt_pc = "off" /\ amt_n = NoneInt /\ amt_in = << >> /\ amt_out = NoneInt
DateOff == dt_pc = "off" /\ dt_lines = << >> /\ dt_fallback = << >> /\ dt_out = NoDate
ParseOff == ps_pc = "off" /\ ps_lines = << >> /\ ps_out = NoParse
ExtractOff ==
  ex_pc = "off" /\ ex_elapsed = 0 /\ ex_lines = NotRead /\ ex_out = NotReturned
OcrOff ==
  /\ _OCR = [ m \in Modules |-> 0 ]
  /\ built = [ m \in Modules |-> 0 ]
  /\ th_pc = [ t \in Threads |-> "off" ]
  /\ th_mod = [ t \in Threads |-> "ocr_fast" ]
  /\ th_obj = [ t \in Threads |-> 0 ]

\* no day: the server is not looked at
FileOff == csv = << >> /\ today = NoDay
WeeklyOff == tw_pc = "off" /\ tw_header = "None" /\ tw_status = 0 /\ tw_calls = << >>
HookOff ==
  /\ wh_pc = "off" /\ wh_mid = FALSE /\ wh_atts = << >> /\ wh_text = << >>
  /\ wh_image = << >> /\ ocr_ready = FALSE /\ _processed_images = { }
  /\ wh_at = 0 /\ wh_result = NotReturned /\ wh_ocr_calls = 0 /\ wh_replies = << >>
  /\ wh_before = << >> /\ wh_status = 0
Mids == { "m1", "m2" }
NoEvent ==
  [ mid |-> "None", at |-> 0, prev |-> NoneInt, skipped |-> FALSE,
    replied |-> FALSE, wrote |-> FALSE ]
NeverRecorded == [ m \in Mids |-> NoneInt ]
SequenceOff == dd_pc = "off" /\ dd_events = 0 /\ dd_last = NoEvent
ThreadsOff == sm_pc = [ t \in Threads |-> "off" ] /\ sm_mid = [ t \in Threads |-> "None" ]
DedupOff ==
  /\ clock = 0 /\ _processed_mids = << >> /\ last_rec = NeverRecorded
  /\ SequenceOff /\ ThreadsOff
ServerOff == FileOff /\ WeeklyOff /\ HookOff /\ DedupOff
MomoOff == NamesOff /\ AmountOff /\ DateOff /\ ParseOff /\ ExtractOff /\ OcrOff

(***************************************************************************)
(* norm_name, names_match                                                  *)
(***************************************************************************)
InitNorm ==
  /\ nm_pc = "start" /\ nm_a \in TextsOver(NameAlphabet, MaxNameLen) /\ nm_b = << >>
  /\ nm_out = << >> /\ nm_prev = << >> /\ nm_match = FALSE
  /\ AmountOff /\ DateOff /\ ParseOff /\ ExtractOff /\ OcrOff
  /\ ServerOff

InitMatch ==
  /\ nm_pc = "pair"
  /\ nm_a \in TextsOver(PairAlphabet, MaxPairLen)
  /\ nm_b \in TextsOver(PairAlphabet, MaxPairLen)
  /\ nm_out = << >> /\ nm_prev = << >> /\ nm_match = FALSE
  /\ AmountOff /\ DateOff /\ ParseOff /\ ExtractOff /\ OcrOff
  /\ ServerOff

NormName ==
  /\ nm_pc = "start"
  /\ nm_out' = norm_name(nm_a)
  /\ nm_pc' = "normed"
  /\ UNCHANGED << nm_a, nm_b, nm_prev, nm_match >>
  /\ UNCHANGED << amountVars, dateVars, parseVars, extractVars, ocrVars >>
  /\ UNCHANGED serverVars

NormAgain ==
  /\ nm_pc = "normed"
  /\ nm_prev' = nm_out
  /\ nm_out' = norm_name(nm_out)
  /\ nm_pc' = "again"
  /\ UNCHANGED << nm_a, nm_b, nm_match >>
  /\ UNCHANGED << amountVars, dateVars, parseVars, extractVars, ocrVars >>
  /\ UNCHANGED serverVars

NamesMatch ==
  /\ nm_pc = "pair"
  /\ nm_match' = names_match(nm_a, nm_b)
  /\ nm_pc' = "matched"
  /\ UNCHANGED << nm_a, nm_b, nm_out, nm_prev >>
  /\ UNCHANGED << amountVars, dateVars, parseVars, extractVars, ocrVars >>
  /\ UNCHANGED serverVars

(***************************************************************************)
(* _vn_amount_to_int                                                       *)
(***************************************************************************)
InitAmount ==
  /\ amt_pc = "start" /\ amt_n = NoneInt /\ amt_in = << >> /\ amt_out = NoneInt
  /\ NamesOff /\ DateOff /\ ParseOff /\ ExtractOff /\ OcrOff
  /\ ServerOff

\* the text is an amount written out
FormatAmount ==
  /\ amt_pc = "start"
  /\ \E n \in Amounts : amt_n' = n /\ amt_in' = FormatVN(n)
  /\ amt_pc' = "text"
  /\ UNCHANGED amt_out
  /\ UNCHANGED << nameVars, dateVars, parseVars, extractVars, ocrVars >>
  /\ UNCHANGED serverVars

\* the text is anything
AnyAmountText ==
  /\ amt_pc = "start"
  /\ amt_in' \in TextsOver(AmountAlphabet, MaxAmountLen)
  /\ amt_pc' = "text"
  /\ UNCHANGED << amt_n, amt_out >>
  /\ UNCHANGED << nameVars, dateVars, parseVars, extractVars, ocrVars >>
  /\ UNCHANGED serverVars

AmountToInt ==
  /\ amt_pc = "text"
  /\ amt_out' = _vn_amount_to_int(amt_in)
  /\ amt_pc' = "done"
  /\ UNCHANGED << amt_n, amt_in >>
  /\ UNCHANGED << nameVars, dateVars, parseVars, extractVars, ocrVars >>
  /\ UNCHANGED serverVars

(***************************************************************************)
(* extract_momo_date                                                       *)
(***************************************************************************)
InitDate ==
  /\ dt_pc = "start"
  /\ dt_lines \in ListsOver(DateLineSet, MaxDateLines)
  /\ dt_fallback \in DateFallbackSet
  /\ dt_out = NoDate
  /\ NamesOff /\ AmountOff /\ ParseOff /\ ExtractOff /\ OcrOff
  /\ ServerOff

ExtractMomoDate ==
  /\ dt_pc = "start"
  /\ dt_out' = extract_momo_date(dt_lines, dt_fallback)
  /\ dt_pc' = "done"
  /\ UNCHANGED << dt_lines, dt_fallback >>
  /\ UNCHANGED << nameVars, amountVars, parseVars, extractVars, ocrVars >>
  /\ UNCHANGED serverVars

(***************************************************************************)
(* _momo_parse and fast_extract_amount_date: one call is followed          *)
(***************************************************************************)
InitMomo ==
  /\ ps_pc = "idle" /\ ps_lines = << >> /\ ps_out = NoParse
  /\ ex_pc = "idle" /\ ex_elapsed = 0 /\ ex_lines = NotRead /\ ex_out = NotReturned
  /\ NamesOff /\ AmountOff /\ DateOff /\ OcrOff
  /\ ServerOff

MomoParse ==
  /\ ps_pc = "idle" /\ ex_pc = "idle"
  /\ \E lines \in ListsOver(AnyLineSet, MaxOcrLines) :
       /\ ps_lines' = lines
       /\ ps_out' = _momo_parse(lines, str_join(<< "\n" >>, lines))
  /\ ps_pc' = "parsed"
  /\ UNCHANGED << nameVars, amountVars, dateVars, extractVars, ocrVars >>
  /\ UNCHANGED serverVars

\* line 262: t0 is taken and the download starts
CallExtract ==
  /\ ex_pc = "idle" /\ ps_pc = "idle"
  /\ ex_pc' = "fetch"
  /\ UNCHANGED << ex_elapsed, ex_lines, ex_out >>
  /\ UNCHANGED << nameVars, amountVars, dateVars, parseVars, ocrVars >>
  /\ UNCHANGED serverVars

\* _fetch_image_bytes raises (HTTP error, image too large, no bytes)
FetchRaises ==
  /\ ex_pc = "fetch"
  /\ ex_pc' = "raised"
  /\ UNCHANGED << ex_elapsed, ex_lines, ex_out >>
  /\ UNCHANGED << nameVars, amountVars, dateVars, parseVars, ocrVars >>
  /\ UNCHANGED serverVars

\* lines 265-267: the download is over after d seconds
FetchReturns ==
  /\ ex_pc = "fetch"
  /\ \E d \in DownloadSecs :
       /\ ex_elapsed' = d
       /\ IF d > OCR_HARD_BUDGET
            THEN ex_out' = TooSlowRecord /\ ex_pc' = "returned"
            ELSE ex_out' = ex_out /\ ex_pc' = "ocr"
  /\ UNCHANGED ex_lines
  /\ UNCHANGED << nameVars, amountVars, dateVars, parseVars, ocrVars >>
  /\ UNCHANGED serverVars

\* _decode_to_bgr or the OCR raises
OcrRaises ==
  /\ ex_pc = "ocr"
  /\ ex_pc' = "raised"
  /\ UNCHANGED << ex_elapsed, ex_lines, ex_out >>
  /\ UNCHANGED << nameVars, amountVars, dateVars, parseVars, ocrVars >>
  /\ UNCHANGED serverVars

\* lines 274-312: the OCR gives its lines after t more seconds, every line read with confidence c
OcrReturns ==
  /\ ex_pc = "ocr"
  /\ \E lines \in ListsOver(OcrLineSet, MaxOcrLines) : \E t \in OcrSecs : \E c \in ConfPercents :
       /\ ex_lines' = lines
       /\ ex_elapsed' = ex_elapsed + t
       /\ ex_out' = AfterOcr(lines, c, ex_elapsed + t)
  /\ ex_pc' = "returned"
  /\ UNCHANGED << nameVars, amountVars, dateVars, parseVars, ocrVars >>
  /\ UNCHANGED serverVars

(***************************************************************************)
(* _ocr (ocr_fast.py) and _get_ocr (ocr_model.py), each with the _OCR of   *)
(* its module; 0 is None, an engine is numbered by its construction        *)
(***************************************************************************)
InitOcr ==
  /\ _OCR = [ m \in Modules |-> 0 ]
  /\ built = [ m \in Modules |-> 0 ]
  /\ th_pc = [ t \in Threads |-> "idle" ]
  /\ th_mod = [ t \in Threads |-> "ocr_fast" ]
  /\ th_obj = [ t \in Threads |-> 0 ]
  /\ NamesOff /\ AmountOff /\ DateOff /\ ParseOff /\ ExtractOff
  /\ ServerOff

\* a thread calls _ocr() or _get_ocr()
Enter(t) ==
  /\ th_pc[t] = "idle"
  /\ \E m \in Modules : th_mod' = [ th_mod EXCEPT ![t] = m ]
  /\ th_pc' = [ th_pc EXCEPT ![t] = "test" ]
  /\ UNCHANGED << _OCR, built, th_obj >>
  /\ UNCHANGED << nameVars, amountVars, dateVars, parseVars, extractVars >>
  /\ UNCHANGED serverVars

\* if _OCR is None:
TestNone(t) ==
  /\ th_pc[t] = "test"
  /\ th_pc' = [ th_pc EXCEPT ![t] = IF _OCR[th_mod[t]] = 0 THEN "build" ELSE "return" ]
  /\ UNCHANGED << _OCR, built, th_mod, th_obj >>
  /\ UNCHANGED << nameVars, amountVars, dateVars, parseVars, extractVars >>
  /\ UNCHANGED serverVars

\* RapidOCR()
Build(t) ==
  /\ th_pc[t] = "build"
  /\ built' = [ built EXCEPT ![th_mod[t]] = @ + 1 ]
  /\ th_obj' = [ th_obj EXCEPT ![t] = built[th_mod[t]] + 1 ]
  /\ th_pc' = [ th_pc EXCEPT ![t] = "store" ]
  /\ UNCHANGED << _OCR, th_mod >>
  /\ UNCHANGED << nameVars, amountVars, dateVars, parseVars, extractVars >>
  /\ UNCHANGED serverVars

\* _OCR = <the engine built>
Store(t) ==
  /\ th_pc[t] = "store"
  /\ _OCR' = [ _OCR EXCEPT ![th_mod[t]] = th_obj[t] ]
  /\ th_pc' = [ th_pc EXCEPT ![t] = "return" ]
  /\ UNCHANGED << built, th_mod, th_obj >>
  /\ UNCHANGED << nameVars, amountVars, dateVars, parseVars, extractVars >>
  /\ UNCHANGED serverVars

\* return _OCR
Return(t) ==
  /\ th_pc[t] = "return"
  /\ th_obj' = [ th_obj EXCEPT ![t] = _OCR[th_mod[t]] ]
  /\ th_pc' = [ th_pc EXCEPT ![t] = "idle" ]
  /\ UNCHANGED << _OCR, built, th_mod >>
  /\ UNCHANGED << nameVars, amountVars, dateVars, parseVars, extractVars >>
  /\ UNCHANGED serverVars

(***************************************************************************)
(* Specifications                                                          *)
(***************************************************************************)
NextNorm == NormName \/ NormAgain
SpecNorm == InitNorm /\ [][NextNorm]_vars

NextMatch == NamesMatch
SpecMatch == InitMatch /\ [][NextMatch]_vars

NextAmount == FormatAmount \/ AnyAmountText \/ AmountToInt
SpecAmount == InitAmount /\ [][NextAmount]_vars

NextDate == ExtractMomoDate
SpecDate == InitDate /\ [][NextDate]_vars

NextMomo ==
  MomoParse \/ CallExtract \/ FetchRaises \/ FetchReturns \/ OcrRaises \/ OcrReturns
SpecMomo == InitMomo /\ [][NextMomo]_vars

NextOcr ==
  \E t \in Threads : Enter(t) \/ TestNone(t) \/ Build(t) \/ Store(t) \/ Return(t)
SpecOcr == InitOcr /\ [][NextOcr]_vars

(***************************************************************************)
(* _momo_parse on the lines of a receipt whose amount and date are spread  *)
(* over lines                                                              *)
(***************************************************************************)
LineAmountWords ==
  << "S", "oos", " ", "t", "i", "eef", "n", ":", " ", "a", "b", "c" >>
LineAmountTight == << "S", "oos", " ", "t", "i", "eef", "n", ":", "a", "b", "c" >>
LineTime == << "2", "2", ":", "2", "5" >>
LineDate == << "2", "2", "/", "0", "9", "/", "2", "0", "2", "5" >>
ReceiptLineSet == { LineAmountWords, LineAmountTight, LineAmount, LineTime, LineDate, LineName }
MaxReceiptLines == 3

InitReceipt ==
  /\ ps_pc = "given" /\ ps_lines \in ListsOver(ReceiptLineSet, MaxReceiptLines)
  /\ ps_out = NoParse
  /\ NamesOff /\ AmountOff /\ DateOff /\ ExtractOff /\ OcrOff
  /\ ServerOff

\* fast_extract_amount_date line 299: full is the lines joined by newlines
ParseReceipt ==
  /\ ps_pc = "given"
  /\ ps_out' = _momo_parse(ps_lines, str_join(<< "\n" >>, ps_lines))
  /\ ps_pc' = "read"
  /\ UNCHANGED << ps_lines, nameVars, amountVars, dateVars, extractVars, ocrVars >>
  /\ UNCHANGED serverVars

NextReceipt == ParseReceipt
SpecReceipt == InitReceipt /\ [][NextReceipt]_vars

(***************************************************************************)
(* server.py: psids.csv and task_weekly                                    *)
(***************************************************************************)
Row(psid, facebook, momo, mute) ==
  [ psid |-> psid, user_facebook |-> facebook, user_momo |-> momo, mute_until |-> mute ]

\* load_psids_csv: every field of every row is stripped
StripRow(r) == [ k \in DOMAIN r |-> str_strip(r[k], Whitespace) ]
load_psids_csv(file) == [ i \in DOMAIN file |-> StripRow(file[i]) ]

CRON_SECRET == "secret"
\* the X-CRON-SECRET header of a request; "None" when the request has none
Headers == { CRON_SECRET, "guess", "None" }

\* lines 556-563: the row is passed over while it is muted
StillMuted(mute_until, now) ==
  /\ mute_until # << >>
  /\ fromisoformat(mute_until) # NoDay
  /\ DayGE(fromisoformat(mute_until), now)

\* lines 552-564: the psids to remind, in the order of the rows
RECURSIVE Targets(_, _)
Targets(rows, now) ==
  IF rows = << >> THEN << >>
  ELSE IF str_strip(Head(rows).psid, Whitespace) = << >> THEN Targets(Tail(rows), now)
  ELSE IF StillMuted(str_strip(Head(rows).mute_until, Whitespace), now)
    THEN Targets(Tail(rows), now)
  ELSE << str_strip(Head(rows).psid, Whitespace) >> \o Targets(Tail(rows), now)

Psids == { << >>, << "p", "1" >>, << " ", "p", "2" >> }
Todays == { Day(2025, 11, 6), Day(2025, 12, 31) }
MuteTexts ==
  { << >>,
    isoformat(Day(2025, 11, 5)),
    isoformat(Day(2025, 11, 6)),
    isoformat(Day(2026, 1, 1)),
    << " " >> \o isoformat(Day(2025, 12, 31)),
    << "2", "0", "2", "5", "-", "0", "2", "-", "3", "0" >> }
WeeklyRows == { Row(p, << >>, << >>, m) : p \in Psids, m \in MuteTexts }
MaxRows == 2

InitWeekly ==
  /\ csv \in ListsOver(WeeklyRows, MaxRows)
  /\ today \in Todays
  /\ tw_pc = "idle" /\ tw_header = "None" /\ tw_status = 0 /\ tw_calls = << >>
  /\ MomoOff /\ HookOff /\ DedupOff

\* lines 544-545: the header is not the secret
WeeklyForbidden ==
  /\ tw_pc = "idle"
  /\ \E h \in Headers \ { CRON_SECRET } : tw_header' = h
  /\ tw_status' = 403
  /\ tw_pc' = "done"
  /\ UNCHANGED << tw_calls, fileVars, momoVars, hookVars, dedupVars >>

\* lines 567-573: the calls of send_text for the targets (each posts one message when
\* PAGE_TOKEN is set); a call that raises is logged and the next target is taken
Calls(targets, raised) ==
  [ i \in DOMAIN targets |-> [ psid |-> targets[i], raised |-> i \in raised ] ]

\* lines 547-575
WeeklyReminds ==
  /\ tw_pc = "idle"
  /\ tw_header' = CRON_SECRET
  /\ \E raised \in SUBSET (1..Len(Targets(load_psids_csv(csv), today))) :
       tw_calls' = Calls(Targets(load_psids_csv(csv), today), raised)
  /\ tw_status' = 200
  /\ tw_pc' = "done"
  /\ UNCHANGED << fileVars, momoVars, hookVars, dedupVars >>

NextWeekly == WeeklyForbidden \/ WeeklyReminds
SpecWeekly == InitWeekly /\ [][NextWeekly]_vars

(***************************************************************************)
(* server.py: webhook_receive, one message event of one sender             *)
(***************************************************************************)
Dash == << "-" >>
Sender == << "p", "1" >>

\* result.get(key) or "-"
GetText(result, key) ==
  IF key \in DOMAIN result /\ ~Falsy(result[key]) THEN result[key] ELSE Dash
\* result.get("lines", []) or []
GetLines(result) == IF "lines" \in DOMAIN result THEN result.lines ELSE << >>

\* next((i for i, r in enumerate(rows) if r.get("psid") == psid), None); 0 is None
IndexOf(rows, psid) ==
  IF \E i \in DOMAIN rows : rows[i].psid = psid
    THEN CHOOSE i \in DOMAIN rows :
           rows[i].psid = psid /\ \A j \in 1..(i - 1) : rows[j].psid # psid
    ELSE 0

\* upsert_row_by_psid(rows, psid, fb_name="")
upsert_row_by_psid(rows, psid) ==
  IF IndexOf(rows, psid) # 0 THEN rows
  ELSE Append(rows, Row(psid, << >>, << >>, << >>))

\* save_psids_csv: the rows are written, or the file stays as it is
Saved(rows, file, saved) == IF saved THEN rows ELSE file

\* lines 339-352: the sender has a row, and a row with no user_facebook takes the
\* display name of the profile
WithProfileName(rows, idx, disp) ==
  IF disp # << >> THEN [ rows EXCEPT ![idx].user_facebook = disp ] ELSE rows
EnsureIn(rows, idx, disp, saved, file) ==
  IF rows[idx].user_facebook = << >>
    THEN Saved(WithProfileName(rows, idx, disp), file, saved)
    ELSE file
EnsureRow(file, psid, disp, saved) ==
  EnsureIn(upsert_row_by_psid(load_psids_csv(file), psid),
           IndexOf(upsert_row_by_psid(load_psids_csv(file), psid), psid),
           disp, saved, file)

\* lines 355-372: the first attachment that is an image with a url, and, for a message
\* with no mid, whose url seen_image has not recorded; at is 0 when there is none
RECURSIVE FirstImage(_, _, _, _)
FirstImage(atts, i, has_mid, seen) ==
  IF i > Len(atts) THEN [ at |-> 0, seen |-> seen ]
  ELSE IF atts[i].type # "image" \/ atts[i].url = "None"
    THEN FirstImage(atts, i + 1, has_mid, seen)
  ELSE IF has_mid THEN [ at |-> i, seen |-> seen ]
  ELSE IF atts[i].url \in seen THEN FirstImage(atts, i + 1, has_mid, seen)
  ELSE [ at |-> i, seen |-> seen \cup { atts[i].url } ]

\* lines 411-426: the date of the receipt, as extract_momo_date looks for it
extract_strict_date_anywhere(lines_local, fallback) ==
  IF FirstDateIn(lines_local, 1, TRUE) # NoDate THEN FirstDateIn(lines_local, 1, TRUE)
  ELSE IF FirstDateIn(lines_local, 1, FALSE) # NoDate THEN FirstDateIn(lines_local, 1, FALSE)
  ELSE extract_strict_slash_date_from_text(fallback)

\* line 389: fast_extract_amount_date returns no actor_name, in any of its records
Actor(result) == GetText(result, "actor_name")

\* line 448
CsvNameOf(row) == IF row.user_momo # << >> THEN row.user_momo ELSE row.user_facebook
CsvName(rows, idx) == IF idx = 0 THEN << >> ELSE CsvNameOf(rows[idx])

\* lines 451-454: a row with no name takes the actor of the receipt
FillName(rows, idx, actor) ==
  IF idx # 0 /\ actor # Dash /\ CsvName(rows, idx) = << >>
    THEN [ rows EXCEPT ![idx].user_facebook = actor ] ELSE rows
NameToMatch(rows, idx, actor) ==
  IF idx # 0 /\ actor # Dash /\ CsvName(rows, idx) = << >> THEN actor ELSE CsvName(rows, idx)

\* lines 456-458
CondAmount(result) == parse_amount_to_int(GetText(result, "amount_text")) = 120000
CondDateOf(hit, now) == hit # NoDate /\ is_current_month_vn(hit.month, hit.year, now)
CondDate(result, now) ==
  CondDateOf(extract_strict_date_anywhere(GetLines(result), GetText(result, "date_text")), now)
CondNameOf(csv_name, actor) == csv_name # << >> /\ actor # << >> /\ names_match(csv_name, actor)
\* A faulty variant of CondName: the name is not looked at.
cond_name_any(rows, idx, result) == TRUE

CondName(rows, idx, result) == CondNameOf(NameToMatch(rows, idx, Actor(result)), Actor(result))

\* line 460
AllMet(rows, psid, result, now) ==
  /\ IndexOf(rows, psid) # 0
  /\ CondAmount(result)
  /\ CondDate(result, now)
  /\ CondName(rows, IndexOf(rows, psid), result)

\* lines 461-467: mute_until is the first day of next month
Muted(rows, idx, now) ==
  [ rows EXCEPT ![idx].mute_until = isoformat(_first_day_next_month_vn(now)) ]

\* lines 439-467: the file after the receipt was judged; filled is whether the name was
\* filled in and saved, saved whether the muted rows were saved
FileJudged(file, psid, result, now, filled, saved) ==
  IF AllMet(load_psids_csv(file), psid, result, now) /\ saved
    THEN Muted(FillName(load_psids_csv(file), IndexOf(load_psids_csv(file), psid),
                        Actor(result)),
               IndexOf(load_psids_csv(file), psid), now)
  ELSE IF filled
    THEN FillName(load_psids_csv(file), IndexOf(load_psids_csv(file), psid), Actor(result))
  ELSE file

\* lines 502-505: which of the two endings the reply has
ReplyKind(file, psid, result, now, saved) ==
  IF AllMet(load_psids_csv(file), psid, result, now) /\ saved
    THEN "result_muted" ELSE "result_not_muted"

\* lines 525-526
StopWords == { << "d", "u", "n", "g" >>, << "d", "uwf", "n", "g" >>, << "s", "t", "o", "p" >> }
IsStop(text_in) == str_lower(str_strip(text_in, Whitespace)) \in StopWords

\* lines 527-535
FileStopped(file, psid, now) ==
  Muted(upsert_row_by_psid(load_psids_csv(file), psid),
        IndexOf(upsert_row_by_psid(load_psids_csv(file), psid), psid), now)

NameHyphen == << "A", "n", "-", "L", "e" >>
LineFee == LineAmount
LineSmallFee == << "1", "0", "0", ".", "0", "0", "0", "dd" >>
LineNovember == << "2", "2", ":", "2", "5", " ", "-", " ", "0", "6", "/", "1", "1", "/", "2", "0", "2", "5" >>
LineDecember == << "3", "1", "/", "1", "2", "/", "2", "0", "2", "5" >>
\* what is on the image of a receipt, line by line; the last is an image with no text
ReceiptImages ==
  { << LineName, LineFee, LineNovember >>,
    << LineName, LineFee, LineDecember >>,
    << LineName, LineSmallFee, LineNovember >>,
    << LineName, LineFee, LineDate >>,
    << >> }
ProfileNames == { << >>, LineName }
StoredRows ==
  { Row(Sender, fb, momo, mute) :
      fb \in { << >>, LineName }, momo \in { << >>, LineName, NameHyphen },
      mute \in { << >>, isoformat(Day(2025, 11, 5)) } }
OtherRow == Row(<< "p", "2" >>, << "B", "i", "n", "h" >>, << >>, << >>)
StoredFiles == { << >> } \cup { << r >> : r \in StoredRows } \cup { << OtherRow, r >> : r \in StoredRows }
ImageAttachment(url) == [ type |-> "image", url |-> url ]
Attachments ==
  { ImageAttachment("u1"), ImageAttachment("u2"), ImageAttachment("None"),
    [ type |-> "file", url |-> "u3" ] }
MaxAttachments == 2
Texts == { << >>, << "S", "t", "o", "p" >> }

\* a message with one image of a receipt
InitReceiptMessage ==
  /\ csv \in StoredFiles /\ today \in Todays
  /\ wh_mid = TRUE /\ wh_atts = << ImageAttachment("u1") >> /\ wh_text = << >>
  /\ wh_image \in ReceiptImages
  /\ ocr_ready = TRUE /\ _processed_images = { }

\* a message with any attachments, with or without a mid and a text
InitAlbumMessage ==
  /\ csv = << Row(Sender, << >>, NameHyphen, << >>) >> /\ today = Day(2025, 11, 6)
  /\ wh_mid \in BOOLEAN /\ wh_atts \in ListsOver(Attachments, MaxAttachments)
  /\ wh_text \in Texts
  /\ wh_image = << LineName, LineFee, LineNovember >>
  /\ ocr_ready \in BOOLEAN /\ _processed_images \in SUBSET { "u1", "u2" }

InitHook ==
  /\ InitReceiptMessage \/ InitAlbumMessage
  /\ wh_pc = "idle" /\ wh_at = 0 /\ wh_result = NotReturned /\ wh_ocr_calls = 0
  /\ wh_replies = << >> /\ wh_before = csv /\ wh_status = 0
  /\ MomoOff /\ WeeklyOff /\ DedupOff

\* send_text(psid, text): the call returns, or raises
Reply(kind, raised) == [ kind |-> kind, raised |-> raised ]

\* lines 336-352
Receive ==
  /\ wh_pc = "idle"
  /\ \E disp \in ProfileNames : \E saved \in BOOLEAN :
       csv' = EnsureRow(csv, Sender, disp, saved)
  /\ wh_pc' = "atts"
  /\ UNCHANGED << today, wh_mid, wh_atts, wh_text, wh_image, ocr_ready, _processed_images,
                  wh_at, wh_result, wh_ocr_calls, wh_replies, wh_before, wh_status >>
  /\ UNCHANGED << momoVars, weeklyVars, dedupVars >>

\* lines 355-376: the loop over the attachments up to the image that is taken
PickImage ==
  /\ wh_pc = "atts"
  /\ wh_at' = FirstImage(wh_atts, 1, wh_mid, _processed_images).at
  /\ _processed_images' = FirstImage(wh_atts, 1, wh_mid, _processed_images).seen
  /\ wh_pc' = IF FirstImage(wh_atts, 1, wh_mid, _processed_images).at = 0 THEN "text"
              ELSE IF ocr_ready THEN "ocr" ELSE "unavailable"
  /\ UNCHANGED << fileVars, wh_mid, wh_atts, wh_text, wh_image, ocr_ready,
                  wh_result, wh_ocr_calls, wh_replies, wh_before, wh_status >>
  /\ UNCHANGED << momoVars, weeklyVars, dedupVars >>

\* lines 377-381: no OCR on the server; a send_text that raises ends the request
Unavailable ==
  /\ wh_pc = "unavailable"
  /\ \E raised \in BOOLEAN :
       /\ wh_replies' = Append(wh_replies, Reply("ocr_unavailable", raised))
       /\ wh_pc' = IF raised THEN "crashed" ELSE "text"
       /\ wh_status' = IF raised THEN 500 ELSE wh_status
  /\ UNCHANGED << fileVars, wh_mid, wh_atts, wh_text, wh_image, ocr_ready, _processed_images,
                  wh_at, wh_result, wh_ocr_calls, wh_before >>
  /\ UNCHANGED << momoVars, weeklyVars, dedupVars >>

\* line 385: fast_extract_amount_date raises
OcrCallRaises ==
  /\ wh_pc = "ocr"
  /\ wh_ocr_calls' = wh_ocr_calls + 1
  /\ wh_pc' = "failed"
  /\ UNCHANGED << fileVars, wh_mid, wh_atts, wh_text, wh_image, ocr_ready, _processed_images,
                  wh_at, wh_result, wh_replies, wh_before, wh_status >>
  /\ UNCHANGED << momoVars, weeklyVars, dedupVars >>

\* line 385: fast_extract_amount_date returns, too late or with what it read
OcrCallReturns ==
  /\ wh_pc = "ocr"
  /\ wh_ocr_calls' = wh_ocr_calls + 1
  /\ \E out \in { TooSlowRecord, AfterOcr(wh_image, 90, 1) } : wh_result' = out
  /\ wh_pc' = "judge"
  /\ UNCHANGED << fileVars, wh_mid, wh_atts, wh_text, wh_image, ocr_ready, _processed_images,
                  wh_at, wh_replies, wh_before, wh_status >>
  /\ UNCHANGED << momoVars, weeklyVars, dedupVars >>

\* lines 386-516: the receipt is judged, the file written and the result sent; a
\* send_text that raises is caught by the except of line 518
Judge ==
  /\ wh_pc = "judge"
  /\ \E filled \in BOOLEAN : \E saved \in BOOLEAN : \E raised \in BOOLEAN :
       /\ csv' = FileJudged(csv, Sender, wh_result, today, filled, saved)
       /\ wh_replies' =
            Append(wh_replies, Reply(ReplyKind(csv, Sender, wh_result, today, saved), raised))
       /\ wh_pc' = IF raised THEN "failed" ELSE "text"
       /\ _processed_images' =
            IF raised THEN _processed_images
            ELSE _processed_images \cup { wh_atts[wh_at].url }
  /\ UNCHANGED << today, wh_mid, wh_atts, wh_text, wh_image, ocr_ready,
                  wh_at, wh_result, wh_ocr_calls, wh_before, wh_status >>
  /\ UNCHANGED << momoVars, weeklyVars, dedupVars >>

\* lines 518-522: the message that the image could not be read
Failed ==
  /\ wh_pc = "failed"
  /\ \E raised \in BOOLEAN :
       /\ wh_replies' = Append(wh_replies, Reply("ocr_failed", raised))
       /\ wh_pc' = IF raised THEN "crashed" ELSE "text"
       /\ wh_status' = IF raised THEN 500 ELSE wh_status
  /\ UNCHANGED << fileVars, wh_mid, wh_atts, wh_text, wh_image, ocr_ready, _processed_images,
                  wh_at, wh_result, wh_ocr_calls, wh_before >>
  /\ UNCHANGED << momoVars, weeklyVars, dedupVars >>

\* lines 524-539: the text of the message; a stop word mutes the sender
Text ==
  /\ wh_pc = "text"
  /\ IF IsStop(wh_text)
       THEN \E saved \in BOOLEAN : \E raised \in BOOLEAN :
              /\ csv' = Saved(FileStopped(csv, Sender, today), csv, saved)
              /\ wh_replies' = Append(wh_replies, Reply("stopped", raised))
              /\ wh_pc' = IF raised THEN "crashed" ELSE "done"
              /\ wh_status' = IF raised THEN 500 ELSE 200
       ELSE /\ wh_pc' = "done" /\ wh_status' = 200
            /\ UNCHANGED << csv, wh_replies >>
  /\ UNCHANGED << today, wh_mid, wh_atts, wh_text, wh_image, ocr_ready, _processed_images,
                  wh_at, wh_result, wh_ocr_calls, wh_before >>
  /\ UNCHANGED << momoVars, weeklyVars, dedupVars >>

NextHook ==
  Receive \/ PickImage \/ Unavailable \/ OcrCallRaises \/ OcrCallReturns \/ Judge
    \/ Failed \/ Text
SpecHook == InitHook /\ [][NextHook]_vars

(***************************************************************************)
(* server.py: seen_mid, for events handled one after another and for       *)
(* requests handled by threads side by side                                *)
(***************************************************************************)
DEDUP_TTL_SEC == 7200

\* A faulty variant of Expired: an entry is dropped at the age of DEDUP_TTL_SEC already.
expired_at_ttl(ts, t) == t - ts >= DEDUP_TTL_SEC

\* line 253: the entry is older than DEDUP_TTL_SEC
Expired(ts, t) == t - ts > DEDUP_TTL_SEC

\* _gc_dedup at the time t, on one of the two dictionaries
_gc_dedup(d, t) == [ m \in { k \in DOMAIN d : ~Expired(d[k], t) } |-> d[m] ]

\* d[mid] = t
Recorded(d, mid, t) == [ m \in DOMAIN d \cup { mid } |-> IF m = mid THEN t ELSE d[m] ]

\* the seconds that pass between two events, and from seen_mid to line 367
Waits == { 1, DEDUP_TTL_SEC - 1, DEDUP_TTL_SEC, DEDUP_TTL_SEC + 1 }
OcrWaits == { 0, 1 }
EventKinds == { "text", "image" }
MaxEvents == 3

InitSequence ==
  /\ clock = 0 /\ _processed_mids = << >> /\ last_rec = NeverRecorded
  /\ dd_pc = "ready" /\ dd_events = 0 /\ dd_last = NoEvent
  /\ ThreadsOff /\ MomoOff /\ FileOff /\ WeeklyOff /\ HookOff

\* time passes before the next event comes in
Wait ==
  /\ dd_pc = "wait" /\ dd_events < MaxEvents
  /\ \E w \in Waits : clock' = clock + w
  /\ dd_pc' = "ready"
  /\ UNCHANGED << _processed_mids, last_rec, dd_events, dd_last, sm_pc, sm_mid >>
  /\ UNCHANGED << momoVars, fileVars, weeklyVars, hookVars >>

\* lines 312-315: seen_mid finds the mid, the event is passed over
SkipDuplicate ==
  /\ dd_pc = "ready"
  /\ \E mid \in Mids :
       /\ mid \in DOMAIN _gc_dedup(_processed_mids, clock)
       /\ dd_last' = [ mid |-> mid, at |-> clock, prev |-> last_rec[mid], skipped |-> TRUE,
                       replied |-> FALSE, wrote |-> FALSE ]
  /\ _processed_mids' = _gc_dedup(_processed_mids, clock)
  /\ dd_pc' = "wait" /\ dd_events' = dd_events + 1
  /\ UNCHANGED << clock, last_rec, sm_pc, sm_mid >>
  /\ UNCHANGED << momoVars, fileVars, weeklyVars, hookVars >>

\* lines 312-539: seen_mid records the mid and the event is handled; an event with an
\* image records its mid once more at line 367, after w seconds
ProcessEvent ==
  /\ dd_pc = "ready"
  /\ \E mid \in Mids : \E kind \in EventKinds : \E w \in OcrWaits :
     \E replied \in BOOLEAN : \E wrote \in BOOLEAN :
       /\ mid \notin DOMAIN _gc_dedup(_processed_mids, clock)
       /\ clock' = IF kind = "image" THEN clock + w ELSE clock
       /\ _processed_mids' = Recorded(_gc_dedup(_processed_mids, clock), mid, clock')
       /\ last_rec' = [ last_rec EXCEPT ![mid] = clock' ]
       /\ dd_last' = [ mid |-> mid, at |-> clock, prev |-> last_rec[mid], skipped |-> FALSE,
                       replied |-> replied, wrote |-> wrote ]
  /\ dd_pc' = "wait" /\ dd_events' = dd_events + 1
  /\ UNCHANGED << sm_pc, sm_mid >>
  /\ UNCHANGED << momoVars, fileVars, weeklyVars, hookVars >>

\* line 257: an event with no mid is handled, seen_mid looks at nothing
ProcessWithoutMid ==
  /\ dd_pc = "ready"
  /\ \E replied \in BOOLEAN : \E wrote \in BOOLEAN :
       dd_last' = [ mid |-> "None", at |-> clock, prev |-> NoneInt, skipped |-> FALSE,
                    replied |-> replied, wrote |-> wrote ]
  /\ dd_pc' = "wait" /\ dd_events' = dd_events + 1
  /\ UNCHANGED << clock, _processed_mids, last_rec, sm_pc, sm_mid >>
  /\ UNCHANGED << momoVars, fileVars, weeklyVars, hookVars >>

NextSequence == Wait \/ SkipDuplicate \/ ProcessEvent \/ ProcessWithoutMid
SpecSequence == InitSequence /\ [][NextSequence]_vars

\* requests handled by the threads of the server, each with one event; a mid may have
\* been recorded before, a moment or long ago
InitThreads ==
  /\ clock = DEDUP_TTL_SEC + 1
  /\ _processed_mids \in { << >>, Recorded(<< >>, "m1", clock), Recorded(<< >>, "m1", 0) }
  /\ last_rec = [ m \in Mids |-> IF m \in DOMAIN _processed_mids THEN _processed_mids[m]
                                 ELSE NoneInt ]
  /\ sm_pc = [ t \in Threads |-> "called" ]
  /\ sm_mid \in [ Threads -> Mids ]
  /\ SequenceOff /\ MomoOff /\ FileOff /\ WeeklyOff /\ HookOff

\* line 259
Collect(t) ==
  /\ sm_pc[t] = "called"
  /\ _processed_mids' = _gc_dedup(_processed_mids, clock)
  /\ sm_pc' = [ sm_pc EXCEPT ![t] = "collected" ]
  /\ UNCHANGED << clock, last_rec, dd_pc, dd_events, dd_last, sm_mid >>
  /\ UNCHANGED << momoVars, fileVars, weeklyVars, hookVars >>

\* lines 260-261: the mid is looked up
LookUp(t) ==
  /\ sm_pc[t] = "collected"
  /\ sm_pc' = [ sm_pc EXCEPT ![t] =
                  IF sm_mid[t] \in DOMAIN _processed_mids THEN "skipped" ELSE "absent" ]
  /\ UNCHANGED << clock, _processed_mids, last_rec, dd_pc, dd_events, dd_last, sm_mid >>
  /\ UNCHANGED << momoVars, fileVars, weeklyVars, hookVars >>

\* lines 262-263: the mid is recorded and the event goes on to be handled
Record(t) ==
  /\ sm_pc[t] = "absent"
  /\ _processed_mids' = Recorded(_processed_mids, sm_mid[t], clock)
  /\ last_rec' = [ last_rec EXCEPT ![sm_mid[t]] = clock ]
  /\ sm_pc' = [ sm_pc EXCEPT ![t] = "passed" ]
  /\ UNCHANGED << clock, dd_pc, dd_events, dd_last, sm_mid >>
  /\ UNCHANGED << momoVars, fileVars, weeklyVars, hookVars >>

NextThreads == \E t \in Threads : Collect(t) \/ LookUp(t) \/ Record(t)
SpecThreads == InitThreads /\ [][NextThreads]_vars

Init ==
  \/ InitNorm \/ InitMatch \/ InitAmount \/ InitDate \/ InitMomo \/ InitOcr
  \/ InitReceipt \/ InitWeekly \/ InitHook \/ InitSequence \/ InitThreads
Next ==
  \/ NextNorm \/ NextMatch \/ NextAmount \/ NextDate \/ NextMomo \/ NextOcr
  \/ NextReceipt \/ NextWeekly \/ NextHook \/ NextSequence \/ NextThreads
Spec == Init /\ [][Next]_vars

(***************************************************************************)
(* Properties                                                              *)
(***************************************************************************)
\* C1: name normalisation is idempotent: norm_name applied to a normalised name
\* gives that name again.
NormNameIdempotent == nm_pc = "again" => nm_out = nm_prev

\* a name with an accented capital and a blank to trim has been normalised twice
NormNameTwiceSeen ==
  /\ nm_pc = "again"
  /\ \E i \in DOMAIN nm_a : nm_a[i] \in { "AS", "I." }
  /\ \E i \in DOMAIN nm_a : nm_a[i] \in Whitespace
  /\ nm_prev # << >> /\ nm_prev # nm_a

\* C2: an amount written with "." between the thousands and the currency sign
\* appended reads back as the same number.
AmountRoundTrip == (amt_pc = "done" /\ amt_n # NoneInt) => amt_out = amt_n

\* an amount of seven digits, two grouping dots in its text, has been read back
MillionsReadBack ==
  /\ amt_pc = "done" /\ amt_n >= 1000000
  /\ Len(SelectSeq(amt_in, LAMBDA c : c = ".")) = 2
  /\ amt_out = amt_n

\* C3: _vn_amount_to_int gives None exactly when the text has no digit, and
\* otherwise the number its digits spell, in their order.
AmountIsItsDigits ==
  amt_pc = "done" =>
    /\ amt_out = NoneInt <=> KeepChars(amt_in, Digits) = << >>
    /\ KeepChars(amt_in, Digits) # << >> => amt_out = int_of(KeepChars(amt_in, Digits))

\* digits apart, among other characters, have made a number; a text with none has made None
DigitsAmongOthersRead ==
  /\ amt_pc = "done" /\ amt_n = NoneInt
  /\ amt_in = << "1", "V", "9" >> /\ amt_out = 19

\* C4: a date returned has its month in 1..12, and a date token that is rejected
\* does not end the extraction: a date any line or the fallback text gives is returned.
MonthInRange ==
  dt_pc = "done" =>
    /\ dt_out.month # NoneInt => (dt_out.month >= MinMonth /\ dt_out.month <= MaxMonth)
    /\ ( \/ \E i \in DOMAIN dt_lines : extract_strict_slash_date_from_text(dt_lines[i]) # NoDate
         \/ extract_strict_slash_date_from_text(dt_fallback) # NoDate )
       => dt_out.month # NoneInt
    /\ dt_out.month = NoneInt => dt_out = [ NoDate EXCEPT !.text = << "-" >> ]

\* the time line's date has month 13, and the date came from the fallback text
RejectedThenFallback ==
  /\ dt_pc = "done"
  /\ Len(dt_lines) = 1 /\ HasTimeKeyword(dt_lines[1])
  /\ re_search(SLASH_DATE_RE, 3, dt_lines[1]) # NoMatch
  /\ extract_strict_slash_date_from_text(dt_lines[1]) = NoDate
  /\ dt_out.month = 1 /\ dt_out.year = 2025

\* C7, as the code has it: names whose normal forms are equal and not empty match.
EqualNamesMatch ==
  (nm_pc = "matched" /\ norm_name(nm_a) = norm_name(nm_b) /\ norm_name(nm_a) # << >>)
    => nm_match

\* C7, as stated: names whose normal forms are equal match.
EqualNormsAlwaysMatch ==
  (nm_pc = "matched" /\ norm_name(nm_a) = norm_name(nm_b)) => nm_match

\* two different spellings of one name have been compared
SpellingsCompared ==
  /\ nm_pc = "matched" /\ nm_a # nm_b
  /\ norm_name(nm_a) = norm_name(nm_b) /\ norm_name(nm_a) # << >>
  /\ nm_match

\* the entries every record of fast_extract_amount_date is to carry
RecordKeys == FieldKeys \cup { "spent_sec", "lines" }

\* C5, as stated: whatever fast_extract_amount_date returns carries every field
\* (amount_text, amount, date_text, recipient_name, recipient_phone, txn_id),
\* spent_sec and lines.
EveryReturnHasAllKeys == ex_pc = "returned" => RecordKeys \subseteq DOMAIN ex_out

\* C5, what the code does keep: a record returned once the OCR has run carries them all.
ReturnAfterOcrHasAllKeys ==
  (ex_pc = "returned" /\ ex_lines # NotRead) => RecordKeys \subseteq DOMAIN ex_out

\* the OCR has read lines and the record has come back past the budget
LateRecordReturned ==
  /\ ex_pc = "returned" /\ ex_lines # NotRead /\ ex_lines # << >>
  /\ ex_elapsed > OCR_HARD_BUDGET
  /\ "timeout" \in DOMAIN ex_out

\* C6: no lines give a record of nulls: _momo_parse of the empty list has None in
\* every field, and fast_extract_amount_date, when the OCR reads no text, returns
\* every field None and lines empty.
NoLinesAllNull ==
  /\ (ps_pc = "parsed" /\ ps_lines = << >>) => ps_out = NoParse
  /\ (ex_pc = "returned" /\ ex_lines = << >>) =>
       /\ RecordKeys \subseteq DOMAIN ex_out
       /\ ex_out.amount_text = NoneStr /\ ex_out.amount = NoneInt
       /\ ex_out.date_text = NoneStr /\ ex_out.recipient_name = NoneStr
       /\ ex_out.recipient_phone = NoneStr /\ ex_out.txn_id = NoneStr
       /\ ex_out.lines = << >>

\* the OCR has read nothing and the record has come back
NoTextReturned ==
  /\ ex_pc = "returned" /\ ex_lines = << >>
  /\ "note" \in DOMAIN ex_out /\ ex_out.spent_sec = ex_elapsed

\* ln, stripped and lowered, starts with one of the (lowered) keys
StartsWithKey(ln, lowered) ==
  \E k \in DOMAIN lowered :
    StartsAt(str_lower(str_strip(ln, Whitespace)), lowered[k], 0)

\* C9, as stated: a line is taken for a recipient line, or for a transaction line,
\* only if it starts with one of the labels.
LabelsAnchoredAtStart ==
  ps_pc = "parsed" =>
    \A i \in DOMAIN ps_lines :
      /\ IsRecipientLine(ps_lines[i]) => StartsWithKey(ps_lines[i], RecipientKeysLower)
      /\ IsTxnLine(ps_lines[i]) => StartsWithKey(ps_lines[i], TxnKeysLower)

\* the first recipient line of the lines, 0 when there is none
FirstRecipientLine(lines) ==
  IF \E i \in DOMAIN lines : IsRecipientLine(lines[i])
    THEN CHOOSE i \in DOMAIN lines :
           IsRecipientLine(lines[i]) /\ \A h \in 1..(i - 1) : ~IsRecipientLine(lines[h])
    ELSE 0

\* C10, as stated: the name the lookahead takes from the lines after a recipient
\* line without a value is never a line that is itself a label.
LookaheadSkipsLabels ==
  ps_pc = "parsed" =>
    \A j \in 1..2 :
      ( /\ FirstRecipientLine(ps_lines) > 0
        /\ FirstRecipientLine(ps_lines) + j <= Len(ps_lines)
        /\ Falsy(SameLine(str_strip(ps_lines[FirstRecipientLine(ps_lines)], Whitespace)).name)
        /\ ps_out.recipient_name = Candidate(ps_lines, FirstRecipientLine(ps_lines) + j)
        /\ ps_out.recipient_name # << >> )
      => /\ ~StartsWithKey(ps_lines[FirstRecipientLine(ps_lines) + j], RecipientKeysLower)
         /\ ~StartsWithKey(ps_lines[FirstRecipientLine(ps_lines) + j], TxnKeysLower)

\* C8, as stated: however the calls interleave, RapidOCR() is run at most once
\* for the _OCR of a module.
BuiltOnce == \A m \in Modules : built[m] <= 1

\* some key of the (lowered) keys is in the line, anywhere
KeyInLine(ln, lowered) == \E k \in DOMAIN lowered : Contains(str_lower(ln), lowered[k])

\* C11: a field with no whole-text fallback is not guessed: with no recipient key
\* in any line the name and the phone are None, with no transaction key in any
\* line the transaction id is None.
NoLabelNoValue ==
  ps_pc = "parsed" =>
    /\ (\A i \in DOMAIN ps_lines : ~KeyInLine(ps_lines[i], RecipientKeysLower))
         => (ps_out.recipient_name = NoneStr /\ ps_out.recipient_phone = NoneStr)
    /\ (\A i \in DOMAIN ps_lines : ~KeyInLine(ps_lines[i], TxnKeysLower))
         => ps_out.txn_id = NoneStr

\* a name, a phone and an amount were read with no label: only the amount is given
UnlabelledLinesParsed ==
  /\ ps_pc = "parsed"
  /\ ps_lines = << LineName, LinePhone, LineAmount >>
  /\ ps_out.recipient_name = NoneStr /\ ps_out.recipient_phone = NoneStr
  /\ ps_out.txn_id = NoneStr /\ ps_out.amount_val = 120000

\* the text the pipeline hands to _momo_parse with the lines
FullText == str_join(<< "\n" >>, ps_lines)
AmountLabel ==
  Alt(<< Cat(<< StrI(<< "S", "oos" >>), Star(Space), StrI(<< "t", "i", "eef", "n" >>) >>),
         StrI(<< "A", "m", "o", "u", "n", "t" >>) >>)
HasDigit(s) == s # NoneStr /\ KeepChars(s, Digits) # << >>
\* no labelled pattern captures a digit
LabelledStepGivesNoDigits(m1, m2, full) ==
  /\ m1 # NoMatch => ~HasDigit(Captured(m1, full))
  /\ m2 # NoMatch => ~HasDigit(Captured(m2, full))
MalformedLabelledAmount(full) ==
  /\ re_search(AmountLabel, 0, full) # NoMatch
  /\ LabelledStepGivesNoDigits(re_search(AMOUNT_PATS[1], 1, full),
                               re_search(AMOUNT_PATS[2], 1, full), full)
BareAmountIn(full) == \E k \in 3..5 : re_search(AMOUNT_PATS[k], 1, full) # NoMatch

\* C12: an amount label followed by no digits does not end the amount cascade: when a
\* bare pattern with a currency suffix matches the text, the amount is not None.
AmountCascadeFallsThrough ==
  (ps_pc = "read" /\ MalformedLabelledAmount(FullText) /\ BareAmountIn(FullText))
    => ps_out.amount_val # NoneInt

\* the label is followed by a blank and letters: the labelled pattern captures the blank
BlankCaptureEndsCascade ==
  (ps_pc = "read" /\ ps_lines = << LineAmountWords, LineAmount >>)
    => (ps_out.amount_text = << >> /\ ps_out.amount_val = NoneInt)
BlankCaptureRead ==
  /\ ps_pc = "read" /\ ps_lines = << LineAmountWords, LineAmount >>
  /\ ps_out.amount_text = << >>

\* a line with a time and a date in it, a line with a bare time, a line with a bare date
CombinedIn(ln) == \E k \in DOMAIN DATE_PATS : re_search(DATE_PATS[k], 1, ln) # NoMatch
TimeIn(ln) == re_search(TimeToken, 0, ln) # NoMatch
DateIn(ln) == re_search(DateToken, 0, ln) # NoMatch
SplitDateTime(lines) ==
  /\ \A i \in DOMAIN lines : ~CombinedIn(lines[i])
  /\ \E i \in DOMAIN lines : TimeIn(lines[i])
  /\ \E j \in DOMAIN lines : DateIn(lines[j])

\* C13: with no line holding both, a time on one line and a date on another are paired
\* and the date-time is not None, also when the two lines are not adjacent.
SplitLinesPaired ==
  (ps_pc = "read" /\ SplitDateTime(ps_lines)) => ps_out.datetime_text # NoneStr

\* what the code does: the time and the date are found together only when nothing but
\* white space (and one separator) lies between them in the joined text
AdjacentLinesJoined ==
  (ps_pc = "read" /\ Len(ps_lines) = 2 /\ SplitDateTime(ps_lines))
    => ps_out.datetime_text = FullText
TimeAboveDateRead ==
  /\ ps_pc = "read" /\ ps_lines = << LineTime, LineDate >>
  /\ ps_out.datetime_text = LineTime \o << "\n" >> \o LineDate

\* a day before another, by year, then month, then day
DayBefore(a, b) ==
  \/ a.year < b.year
  \/ (a.year = b.year /\ a.month < b.month)
  \/ (<< a.year, a.month >> = << b.year, b.month >> /\ a.day < b.day)
\* the row is to be reminded: it has a psid, and its mute_until is empty, no date, or a
\* date before today
ToRemind(r) ==
  /\ str_strip(r.psid, Whitespace) # << >>
  /\ \/ str_strip(r.mute_until, Whitespace) = << >>
     \/ fromisoformat(str_strip(r.mute_until, Whitespace)) = NoDay
     \/ DayBefore(fromisoformat(str_strip(r.mute_until, Whitespace)), today)
RowsToRemind == SelectSeq(csv, ToRemind)

\* C14: task_weekly with the right secret calls send_text once for each row that has a
\* psid and is not muted today or later, for no other row, whether or not an earlier
\* call raised; with a wrong or missing secret it answers 403 and sends nothing.
WeeklyRemindsUnmuted ==
  tw_pc = "done" =>
    IF tw_header = CRON_SECRET
      THEN /\ tw_status = 200
           /\ Len(tw_calls) = Len(RowsToRemind)
           /\ \A i \in DOMAIN tw_calls :
                tw_calls[i].psid = str_strip(RowsToRemind[i].psid, Whitespace)
      ELSE tw_status = 403 /\ tw_calls = << >>

\* a row muted until today is passed over, a row whose date is no date is reminded after
\* a call that raised
MutedTodayPassedOver ==
  /\ tw_pc = "done" /\ tw_header = CRON_SECRET
  /\ today = Day(2025, 11, 6)
  /\ Len(csv) = 2
  /\ csv[1].mute_until = isoformat(today) /\ csv[1].psid = << "p", "1" >>
  /\ csv[2].mute_until = << "2", "0", "2", "5", "-", "0", "2", "-", "3", "0" >>
  /\ Len(tw_calls) = 1 /\ tw_calls[1].psid = << "p", "2" >>

\* the mute_until and the name kept for the sender in a file
MuteOf(file) ==
  IF IndexOf(file, Sender) = 0 THEN << >> ELSE file[IndexOf(file, Sender)].mute_until
StoredName(file) == CsvName(file, IndexOf(file, Sender))
\* the stop word of the message was acted on
TextPathRan ==
  wh_replies # << >> /\ wh_replies[Len(wh_replies)].kind = "stopped"
\* the three conditions, read off what the OCR returned and the file
ReceiptAmount == parse_amount_to_int(GetText(wh_result, "amount_text"))
ReceiptDate == extract_momo_date(GetLines(wh_result), GetText(wh_result, "date_text"))
ReceiptOfThisMonth ==
  ReceiptDate.month = today.month /\ ReceiptDate.year = today.year

\* C15: the image path writes mute_until only for a receipt of 120000, dated in the
\* current month, whose actor matches the stored name; otherwise the sender's
\* mute_until is what it was when the event came in.
MuteOnlyWhenAllThree ==
  (wh_pc # "off" /\ ~TextPathRan /\ MuteOf(csv) # MuteOf(wh_before))
    => /\ wh_result # NotReturned
       /\ ReceiptAmount = 120000
       /\ ReceiptOfThisMonth
       /\ names_match(StoredName(csv), Actor(wh_result))

\* a sender whose stored name has a hyphen in it was muted by a receipt of this month
MutedByReceipt ==
  /\ wh_pc = "text" /\ wh_text = << >>
  /\ MuteOf(wh_before) = << >> /\ StoredName(wh_before) = NameHyphen
  /\ MuteOf(csv) = isoformat(Day(2025, 12, 1))
  /\ wh_replies = << Reply("result_muted", FALSE) >>

\* the OCR read the stored name, the fee and a date of this month off the image
MatchingReceiptRead ==
  /\ wh_result # NotReturned
  /\ StoredName(wh_before) # << >>
  /\ \E i \in DOMAIN GetLines(wh_result) : GetLines(wh_result)[i] = StoredName(wh_before)
  /\ ReceiptAmount = 120000
  /\ ReceiptOfThisMonth

\* C16: a sender with a stored name whose receipt shows that name, 120.000dd and a date
\* of this month is muted once the result was sent: mute_until is the first day of next
\* month and the reply says that the reminders are stopped.
MatchingReceiptMutes ==
  (wh_pc = "text" /\ MatchingReceiptRead)
    => /\ MuteOf(csv) = isoformat(_first_day_next_month_vn(today))
       /\ wh_replies[Len(wh_replies)].kind = "result_muted"

\* what the code does: no record of fast_extract_amount_date has an actor_name, the
\* actor is "-" and a stored name with no hyphen in it never matches it
ActorNeverRead ==
  (wh_result # NotReturned /\ ~TextPathRan /\ ~Contains(StoredName(csv), Dash))
    => (Actor(wh_result) = Dash /\ MuteOf(csv) = MuteOf(wh_before))
MatchingReceiptNotMuted ==
  /\ wh_pc = "text" /\ MatchingReceiptRead
  /\ StoredName(wh_before) = LineName
  /\ MuteOf(csv) = << >>
  /\ wh_replies = << Reply("result_not_muted", FALSE) >>

ImageReplies == { "result_muted", "result_not_muted", "ocr_unavailable", "ocr_failed" }
ImageRepliesSent == { i \in DOMAIN wh_replies : wh_replies[i].kind \in ImageReplies }

\* C19: for one message event the OCR is called for at most one image and at most one
\* reply about the image is sent, however many images the message has.
OneImageOneReply == wh_ocr_calls <= 1 /\ Cardinality(ImageRepliesSent) <= 1

\* what the code does: one OCR call, and a second reply only after the send_text of
\* the first one raised
OneOcrCallOneReturnedReply ==
  /\ wh_ocr_calls <= 1
  /\ Cardinality({ i \in ImageRepliesSent : ~wh_replies[i].raised }) <= 1
  /\ Cardinality(ImageRepliesSent) <= 2
  /\ Cardinality(ImageRepliesSent) = 2
       => (wh_replies[1].raised /\ wh_replies[2].kind = "ocr_failed")
TwoImagesOneReply ==
  /\ wh_pc = "done"
  /\ wh_atts = << ImageAttachment("u1"), ImageAttachment("u2") >>
  /\ wh_ocr_calls = 1
  /\ Cardinality(ImageRepliesSent) = 1

\* C17: of events handled one after another, an event with a mid is passed over, with
\* no reply and no write to the file, exactly when its mid was last recorded no more
\* than DEDUP_TTL_SEC seconds before; after a longer time the entry is gone and the
\* event is handled and recorded as new.
DuplicateIffRecent ==
  (dd_pc = "wait" /\ dd_last.mid # "None") =>
    /\ dd_last.skipped <=>
         (dd_last.prev # NoneInt /\ dd_last.at - dd_last.prev <= DEDUP_TTL_SEC)
    /\ dd_last.skipped => (~dd_last.replied /\ ~dd_last.wrote)
    /\ ~dd_last.skipped =>
         (dd_last.mid \in DOMAIN _processed_mids /\ _processed_mids[dd_last.mid] >= dd_last.at)

\* an event came exactly DEDUP_TTL_SEC seconds after its mid was recorded at line 367,
\* and was passed over
SkippedAtTheLimit ==
  /\ dd_pc = "wait" /\ dd_last.skipped
  /\ dd_last.prev = 1
  /\ dd_last.at - dd_last.prev = DEDUP_TTL_SEC

\* C18: of the requests that carry the same mid and are handled side by side, at most
\* one gets past seen_mid.
OnePassesSeenMid ==
  \A t1, t2 \in Threads :
    (t1 # t2 /\ sm_mid[t1] = sm_mid[t2]) => ~(sm_pc[t1] = "passed" /\ sm_pc[t2] = "passed")
====
